---- MODULE Spec2Model ----
(***************************************************************************)
(* DAH extractor: format detection, the CSV / structured-text / generic    *)
(* parsers, and the VATGlasses converter and validator.                    *)
(*                                                                         *)
(* Text is a sequence of one-character strings, so that trimming, line     *)
(* splitting, substring search and the regular expressions of the source   *)
(* are computed character by character.  The pure functions of the source  *)
(* are operators; every specification draws an input in its initial state  *)
(* and its actions apply the function under study to that input.  The      *)
(* line scan of parseAirspaceText is a state machine stepping one line at  *)
(* a time.                                                                  *)
(***************************************************************************)
EXTENDS Integers, Sequences, FiniteSets, TLC

VARIABLES
    op,                     \* the operation that produced result ("input" before any)
    input,                  \* the argument handed to the operation
    result,                 \* what the operation returned (or the error it threw)
    lines,                  \* parseAirspaceText: text.split('\n').map(trim)
    i,                      \* parseAirspaceText: index of the next line to scan
    airspaces,              \* parseAirspaceText: the output list so far
    currentAirspace,        \* parseAirspaceText: record in progress, or Null
    readingLateralLimits,   \* parseAirspaceText: flag
    readingVerticalLimits,  \* parseAirspaceText: flag
    currentFilePath,        \* renderer: path of the selected file, or Null
    convertedData,          \* renderer: the stored conversion result, or Null
    convertBtnDisabled,     \* renderer: convertBtn.disabled
    previewed,              \* renderer: the data shown in the preview section, or Null
    dialogs,                \* renderer: 'select-dah-file' invocations not yet answered
    conversions,            \* renderer: 'convert-dah-file' invocations not yet answered, per path
    saved,                  \* renderer: the data last handed to 'save-json-file', or Null
    copied                  \* renderer: the data last written to the clipboard, or Null

rendererVars == <<currentFilePath, convertedData, convertBtnDisabled, previewed,
                  dialogs, conversions, saved, copied>>

vars == <<op, input, result, lines, i, airspaces, currentAirspace,
          readingLateralLimits, readingVerticalLimits, rendererVars>>

scanVars == <<lines, i, airspaces, currentAirspace,
              readingLateralLimits, readingVerticalLimits>>

(***************************************************************************)
(* Bounds of the model.                                                    *)
(***************************************************************************)
MaxParts == 3         \* fragments concatenated into a text handed to the detector
MaxRecords == 2       \* records in a list handed to the converter or the validator
MaxRows == 3          \* lines after the header of a CSV file
MaxLines == 3         \* lines of a free text

(***************************************************************************)
(* JavaScript values.  A value whose type is only known at run time is a   *)
(* record tagged with its type: v is a character sequence for a string, an *)
(* integer for a number, a sequence of values for an array and a function  *)
(* from property names to values for an object.  Throw(m) stands for the   *)
(* exception a call ended with.                                            *)
(***************************************************************************)
Null == [t |-> "null"]
Undefined == [t |-> "undefined"]
NoResult == [t |-> "none"]
Str(cs) == [t |-> "string", v |-> cs]
Num(n) == [t |-> "number", v |-> n, nan |-> FALSE]
NaN == [t |-> "number", v |-> 0, nan |-> TRUE]
Bool(b) == [t |-> "boolean", v |-> b]
Arr(seq) == [t |-> "array", v |-> seq]
Obj(f) == [t |-> "object", v |-> f]
EmptyObj == Obj(<<>>)
Throw(m) == [t |-> "throw", v |-> m]

IsThrow(x) == x.t = "throw"
IsArray(x) == x.t = "array"

\* typeof x
typeof(x) == IF x.t \in {"null", "array", "object"} THEN "object" ELSE x.t

\* x converted to a boolean, as by if (x), !x, x || y
Truthy(x) ==
    CASE x.t \in {"undefined", "null"} -> FALSE
      [] x.t = "boolean" -> x.v
      [] x.t = "number" -> ~x.nan /\ x.v # 0
      [] x.t = "string" -> x.v # <<>>
      [] OTHER -> TRUE

\* o.name: a property read.  Reading a property of null or undefined throws;
\* of a string or an array, length is the only property the model reads
TypeErrorRead == Throw("TypeError: Cannot read properties of null or undefined")
TypeErrorCall == Throw("TypeError: not a function")

Get(o, name) ==
    CASE o.t \in {"undefined", "null"} -> TypeErrorRead
      [] o.t = "throw" -> o
      [] o.t = "object" -> IF name \in DOMAIN o.v THEN o.v[name] ELSE Undefined
      [] o.t \in {"array", "string"} -> IF name = "length" THEN Num(Len(o.v)) ELSE Undefined
      [] OTHER -> Undefined

\* the first exception among the values of a sequence, or NoResult
FirstThrow(seq) ==
    IF \E k \in 1..Len(seq) : IsThrow(seq[k])
    THEN seq[CHOOSE k \in 1..Len(seq) :
                IsThrow(seq[k]) /\ \A j \in 1..(k - 1) : ~IsThrow(seq[j])]
    ELSE NoResult

(***************************************************************************)
(* Strings as character sequences.                                         *)
(***************************************************************************)
WhiteSpace == {" ", "\n", "\t", "\r"}
Digits == {"0", "1", "2", "3", "4", "5", "6", "7", "8", "9"}

LowerOf ==
    [A |-> "a", B |-> "b", C |-> "c", D |-> "d", E |-> "e", F |-> "f",
     G |-> "g", H |-> "h", I |-> "i", J |-> "j", K |-> "k", L |-> "l",
     M |-> "m", N |-> "n", O |-> "o", P |-> "p", Q |-> "q", R |-> "r",
     S |-> "s", T |-> "t", U |-> "u", V |-> "v", W |-> "w", X |-> "x",
     Y |-> "y", Z |-> "z"]

UpperOf ==
    [a |-> "A", b |-> "B", c |-> "C", d |-> "D", e |-> "E", f |-> "F",
     g |-> "G", h |-> "H", i |-> "I", j |-> "J", k |-> "K", l |-> "L",
     m |-> "M", n |-> "N", o |-> "O", p |-> "P", q |-> "Q", r |-> "R",
     s |-> "S", t |-> "T", u |-> "U", v |-> "V", w |-> "W", x |-> "X",
     y |-> "Y", z |-> "Z"]

UpperLetters == DOMAIN LowerOf
LowerLetters == DOMAIN UpperOf

toLowerCase(s) ==
    [k \in 1..Len(s) |-> IF s[k] \in UpperLetters THEN LowerOf[s[k]] ELSE s[k]]

toUpperCase(s) ==
    [k \in 1..Len(s) |-> IF s[k] \in LowerLetters THEN UpperOf[s[k]] ELSE s[k]]

\* index of the first / last character that is not white space (0 if none)
FirstNonWs(s) ==
    IF \E k \in 1..Len(s) : s[k] \notin WhiteSpace
    THEN CHOOSE k \in 1..Len(s) :
            /\ s[k] \notin WhiteSpace
            /\ \A j \in 1..(k - 1) : s[j] \in WhiteSpace
    ELSE 0

LastNonWs(s) ==
    IF \E k \in 1..Len(s) : s[k] \notin WhiteSpace
    THEN CHOOSE k \in 1..Len(s) :
            /\ s[k] \notin WhiteSpace
            /\ \A j \in (k + 1)..Len(s) : s[j] \in WhiteSpace
    ELSE 0

trim(s) ==
    IF FirstNonWs(s) = 0 THEN <<>> ELSE SubSeq(s, FirstNonWs(s), LastNonWs(s))

startsWith(s, p) ==
    Len(s) >= Len(p) /\ SubSeq(s, 1, Len(p)) = p

matchAt(s, k, p) ==
    k >= 1 /\ k + Len(p) - 1 <= Len(s) /\ SubSeq(s, k, k + Len(p) - 1) = p

includes(s, p) ==
    \E k \in 1..(Len(s) - Len(p) + 1) : matchAt(s, k, p)

\* s.split(sep) for a one-character separator: always at least one piece
RECURSIVE split(_, _)
split(s, sep) ==
    IF \E k \in 1..Len(s) : s[k] = sep
    THEN LET k == CHOOSE k \in 1..Len(s) :
                        s[k] = sep /\ \A j \in 1..(k - 1) : s[j] # sep
         IN  <<SubSeq(s, 1, k - 1)>> \o split(SubSeq(s, k + 1, Len(s)), sep)
    ELSE <<s>>

RECURSIVE Flatten(_)
Flatten(parts) ==
    IF parts = <<>> THEN <<>> ELSE Head(parts) \o Flatten(Tail(parts))

(***************************************************************************)
(* JSON.parse, as far as its verdict goes: does the text parse as JSON?    *)
(* A recursive-descent recogniser of the JSON grammar.  Each operator      *)
(* takes the text and a position, and returns the position after what it   *)
(* recognised, or 0.                                                       *)
(***************************************************************************)
JsonWs == {" ", "\n", "\t", "\r"}

RECURSIVE JsonSkipWs(_, _)
JsonSkipWs(s, k) ==
    IF k <= Len(s) /\ s[k] \in JsonWs THEN JsonSkipWs(s, k + 1) ELSE k

RECURSIVE JsonDigits(_, _)
JsonDigits(s, k) ==
    IF k <= Len(s) /\ s[k] \in Digits THEN JsonDigits(s, k + 1) ELSE k

\* the characters of a string after its opening quote
RECURSIVE JsonStringRest(_, _)
JsonStringRest(s, k) ==
    IF k > Len(s) THEN 0
    ELSE IF s[k] = "\"" THEN k + 1
    ELSE IF s[k] \in {"\n", "\t", "\r"} THEN 0
    ELSE IF s[k] = "\\"
         THEN IF k + 1 <= Len(s) /\ s[k + 1] \in {"\"", "\\", "/", "b", "f", "n", "r", "t"}
              THEN JsonStringRest(s, k + 2)
              ELSE 0
    ELSE JsonStringRest(s, k + 1)

JsonString(s, k) ==
    IF k <= Len(s) /\ s[k] = "\"" THEN JsonStringRest(s, k + 1) ELSE 0

JsonInt(s, k) ==
    IF k > Len(s) THEN 0
    ELSE IF s[k] = "0" THEN k + 1
    ELSE IF s[k] \in Digits THEN JsonDigits(s, k + 1)
    ELSE 0

JsonFrac(s, k) ==
    IF k = 0 THEN 0
    ELSE IF k <= Len(s) /\ s[k] = "."
         THEN IF JsonDigits(s, k + 1) > k + 1 THEN JsonDigits(s, k + 1) ELSE 0
    ELSE k

JsonExp(s, k) ==
    IF k = 0 THEN 0
    ELSE IF k <= Len(s) /\ s[k] \in {"e", "E"}
         THEN LET d == IF k + 1 <= Len(s) /\ s[k + 1] \in {"+", "-"} THEN k + 2 ELSE k + 1
              IN  IF JsonDigits(s, d) > d THEN JsonDigits(s, d) ELSE 0
    ELSE k

JsonNumber(s, k) ==
    JsonExp(s, JsonFrac(s, JsonInt(s, IF k <= Len(s) /\ s[k] = "-" THEN k + 1 ELSE k)))

JsonLiteral(s, k) ==
    IF matchAt(s, k, <<"t", "r", "u", "e">>) THEN k + 4
    ELSE IF matchAt(s, k, <<"f", "a", "l", "s", "e">>) THEN k + 5
    ELSE IF matchAt(s, k, <<"n", "u", "l", "l">>) THEN k + 4
    ELSE 0

RECURSIVE JsonValue(_, _)
RECURSIVE JsonElements(_, _)
RECURSIVE JsonMembers(_, _)

\* after one element of an array: either "]" or "," and another element
JsonElements(s, k) ==
    LET v == JsonValue(s, JsonSkipWs(s, k))
        a == JsonSkipWs(s, v)
    IN  IF v = 0 \/ a > Len(s) THEN 0
        ELSE IF s[a] = "]" THEN a + 1
        ELSE IF s[a] = "," THEN JsonElements(s, a + 1)
        ELSE 0

\* one member "key": value of an object, then either "}" or "," and another
JsonMembers(s, k) ==
    LET q == JsonString(s, JsonSkipWs(s, k))
        c == JsonSkipWs(s, q)
    IN  IF q = 0 \/ c > Len(s) \/ s[c] # ":" THEN 0
        ELSE LET v == JsonValue(s, JsonSkipWs(s, c + 1))
                 a == JsonSkipWs(s, v)
             IN  IF v = 0 \/ a > Len(s) THEN 0
                 ELSE IF s[a] = "}" THEN a + 1
                 ELSE IF s[a] = "," THEN JsonMembers(s, a + 1)
                 ELSE 0

JsonValue(s, k) ==
    IF k = 0 \/ k > Len(s) THEN 0
    ELSE IF s[k] = "[" THEN
        LET a == JsonSkipWs(s, k + 1)
        IN  IF a <= Len(s) /\ s[a] = "]" THEN a + 1 ELSE JsonElements(s, k + 1)
    ELSE IF s[k] = "{" THEN
        LET a == JsonSkipWs(s, k + 1)
        IN  IF a <= Len(s) /\ s[a] = "}" THEN a + 1 ELSE JsonMembers(s, k + 1)
    ELSE IF s[k] = "\"" THEN JsonString(s, k)
    ELSE IF s[k] \in Digits \cup {"-"} THEN JsonNumber(s, k)
    ELSE JsonLiteral(s, k)

\* JSON.parse(content) returns (TRUE) or throws a SyntaxError (FALSE)
JSONparses(content) ==
    LET v == JsonValue(content, JsonSkipWs(content, 1))
    IN  v # 0 /\ JsonSkipWs(content, v) = Len(content) + 1

(***************************************************************************)
(* detectFileFormat                                                        *)
(***************************************************************************)
detectFileFormat_CsvFirst(content) ==
    LET ls == split(content, "\n")
        firstLine == toLowerCase(ls[1])
    IN  IF /\ Len(ls) > 1
           /\ includes(ls[1], <<",">>)
           /\ \/ includes(firstLine, <<"a", "i", "r", "s", "p", "a", "c", "e">>)
              \/ includes(firstLine, <<"l", "a", "t", "i", "t", "u", "d", "e">>)
              \/ includes(firstLine, <<"n", "a", "m", "e">>)
        THEN "csv"
        ELSE IF /\ \/ startsWith(trim(content), <<"{">>)
                   \/ startsWith(trim(content), <<"[">>)
                /\ JSONparses(content)
        THEN "json"
        ELSE IF \/ includes(content, <<"A", "I", "R", "S", "P", "A", "C", "E">>)
                \/ includes(content, <<"A", "i", "r", "s", "p", "a", "c", "e">>)
                \/ includes(content, <<"U", "P", "P", "E", "R", " ", "L", "I", "M", "I", "T">>)
                \/ includes(content, <<"L", "O", "W", "E", "R", " ", "L", "I", "M", "I", "T">>)
        THEN "structured_text"
        ELSE "generic"

detectFileFormat_NoLowerLimit(content) ==
    LET ls == split(content, "\n")
        firstLine == toLowerCase(ls[1])
    IN  IF /\ \/ startsWith(trim(content), <<"{">>)
              \/ startsWith(trim(content), <<"[">>)
           /\ JSONparses(content)
        THEN "json"
        ELSE IF /\ Len(ls) > 1
                /\ includes(ls[1], <<",">>)
                /\ \/ includes(firstLine, <<"a", "i", "r", "s", "p", "a", "c", "e">>)
                   \/ includes(firstLine, <<"l", "a", "t", "i", "t", "u", "d", "e">>)
                   \/ includes(firstLine, <<"n", "a", "m", "e">>)
        THEN "csv"
        ELSE IF \/ includes(content, <<"A", "I", "R", "S", "P", "A", "C", "E">>)
                \/ includes(content, <<"A", "i", "r", "s", "p", "a", "c", "e">>)
                \/ includes(content, <<"U", "P", "P", "E", "R", " ", "L", "I", "M", "I", "T">>)
        THEN "structured_text"
        ELSE "generic"

detectFileFormat(content) ==
    LET ls == split(content, "\n")
        firstLine == toLowerCase(ls[1])
    IN  IF /\ \/ startsWith(trim(content), <<"{">>)
              \/ startsWith(trim(content), <<"[">>)
           /\ JSONparses(content)
        THEN "json"
        ELSE IF /\ Len(ls) > 1
                /\ includes(ls[1], <<",">>)
                /\ \/ includes(firstLine, <<"a", "i", "r", "s", "p", "a", "c", "e">>)
                   \/ includes(firstLine, <<"l", "a", "t", "i", "t", "u", "d", "e">>)
                   \/ includes(firstLine, <<"n", "a", "m", "e">>)
        THEN "csv"
        ELSE IF \/ includes(content, <<"A", "I", "R", "S", "P", "A", "C", "E">>)
                \/ includes(content, <<"A", "i", "r", "s", "p", "a", "c", "e">>)
                \/ includes(content, <<"U", "P", "P", "E", "R", " ", "L", "I", "M", "I", "T">>)
                \/ includes(content, <<"L", "O", "W", "E", "R", " ", "L", "I", "M", "I", "T">>)
        THEN "structured_text"
        ELSE "generic"

(***************************************************************************)
(* Texts handed to the detector: up to MaxParts fragments, concatenated.   *)
(***************************************************************************)
DetectFragments ==
    { <<"[">>, <<"]">>, <<"{">>, <<"}">>, <<"1", "]">>,
      <<"[", "\"", "N", "a", "m", "e", "\"", ",">>,
      <<",">>, <<"\n">>, <<" ">>,
      <<"A", "I", "R", "S", "P", "A", "C", "E">>,
      <<"A", "i", "r", "s", "p", "a", "c", "e">>,
      <<"a", "i", "r", "s", "p", "a", "c", "e">>,
      <<"L", "a", "t", "i", "t", "u", "d", "e">>,
      <<"U", "P", "P", "E", "R", " ", "L", "I", "M", "I", "T">>,
      <<"L", "O", "W", "E", "R", " ", "L", "I", "M", "I", "T">>,
      <<"V", "E", "R", "T", "I", "C", "A", "L", " ", "L", "I", "M", "I", "T", "S", ":",
        " ", "F", "L", "1", "0", "0", " ", "-", " ", "F", "L", "2", "0", "0">> }

DetectTexts ==
    { Flatten(p) : p \in UNION { [1..n -> DetectFragments] : n \in 0..MaxParts } }

ScanIdle ==
    /\ lines = <<>>
    /\ i = 0
    /\ airspaces = <<>>
    /\ currentAirspace = Null
    /\ readingLateralLimits = FALSE
    /\ readingVerticalLimits = FALSE

\* the renderer's state before its page is loaded
RendererIdle ==
    /\ currentFilePath = Null
    /\ convertedData = Null
    /\ convertBtnDisabled = TRUE
    /\ previewed = Null
    /\ dialogs = 0
    /\ conversions = <<>>
    /\ saved = Null
    /\ copied = Null

InitDetect ==
    /\ op = "input"
    /\ input \in DetectTexts
    /\ result = NoResult
    /\ ScanIdle
    /\ RendererIdle

Detect ==
    /\ op = "input"
    /\ op' = "detectFileFormat"
    /\ result' = detectFileFormat(input)
    /\ UNCHANGED <<input, scanVars, rendererVars>>

NextDetect == Detect

SpecDetect == InitDetect /\ [][NextDetect]_vars

(***************************************************************************)
(* The detector's contract, stated on the text itself: where the first     *)
(* line ends, how many line breaks there are, which words occur.           *)
(***************************************************************************)
Tags == {"json", "csv", "structured_text", "generic"}

LineBreaks(t) == Cardinality({k \in 1..Len(t) : t[k] = "\n"})

\* the characters before the first line break
FirstLineOf(t) ==
    LET stops == {k \in 1..Len(t) : t[k] = "\n"}
    IN  IF stops = {} THEN t
        ELSE SubSeq(t, 1, (CHOOSE k \in stops : \A j \in stops : k <= j) - 1)

Occurs(word, t) ==
    \E a \in 1..Len(t), b \in 1..Len(t) : a <= b /\ SubSeq(t, a, b) = word

OpensLikeJson(t) ==
    \E k \in 1..Len(t) :
        /\ t[k] \in {"{", "["}
        /\ \A j \in 1..(k - 1) : t[j] \in WhiteSpace

IsJsonText(t) == OpensLikeJson(t) /\ JSONparses(t)

HasCsvHeader(t) ==
    /\ LineBreaks(t) >= 1
    /\ Occurs(<<",">>, FirstLineOf(t))
    /\ \/ Occurs(<<"a", "i", "r", "s", "p", "a", "c", "e">>, toLowerCase(FirstLineOf(t)))
       \/ Occurs(<<"l", "a", "t", "i", "t", "u", "d", "e">>, toLowerCase(FirstLineOf(t)))
       \/ Occurs(<<"n", "a", "m", "e">>, toLowerCase(FirstLineOf(t)))

HasStructuredMarker(t) ==
    \/ Occurs(<<"A", "I", "R", "S", "P", "A", "C", "E">>, t)
    \/ Occurs(<<"A", "i", "r", "s", "p", "a", "c", "e">>, t)
    \/ Occurs(<<"U", "P", "P", "E", "R", " ", "L", "I", "M", "I", "T">>, t)
    \/ Occurs(<<"L", "O", "W", "E", "R", " ", "L", "I", "M", "I", "T">>, t)

VerticalLimitsMarker ==
    <<"V", "E", "R", "T", "I", "C", "A", "L", " ", "L", "I", "M", "I", "T", "S", ":",
      " ", "F", "L", "1", "0", "0", " ", "-", " ", "F", "L", "2", "0", "0">>

\* C1: detectFileFormat returns, for every text, exactly one of the four tags,
\* by first-match-wins priority: json if the trimmed text opens with { or [
\* and parses; else csv if there are 2 or more lines and the first holds a
\* comma and (lowercased) airspace, latitude or name; else structured_text if
\* the text holds AIRSPACE, Airspace, UPPER LIMIT or LOWER LIMIT; else
\* generic.  Text that opens like JSON but does not parse is classified by
\* the later rules.
C1_DetectPriority ==
    op = "detectFileFormat" =>
        /\ result \in Tags
        /\ (result = "json") = IsJsonText(input)
        /\ (result = "csv") = (~IsJsonText(input) /\ HasCsvHeader(input))
        /\ (result = "structured_text") =
              (~IsJsonText(input) /\ ~HasCsvHeader(input) /\ HasStructuredMarker(input))
        /\ (result = "generic") =
              (~IsJsonText(input) /\ ~HasCsvHeader(input) /\ ~HasStructuredMarker(input))

\* C1 witness: a text that opens with [ , does not parse as JSON, and was
\* classified csv by the second rule
C1_Witness ==
    /\ op = "detectFileFormat"
    /\ OpensLikeJson(input)
    /\ ~JSONparses(input)
    /\ result = "csv"

\* C2 as stated: a text that is not JSON, has no CSV header and holds the
\* section marker "VERTICAL LIMITS: FL100 - FL200" is classified
\* structured_text
C2_VerticalLimitsIsStructured ==
    ( /\ op = "detectFileFormat"
      /\ ~IsJsonText(input)
      /\ ~HasCsvHeader(input)
      /\ Occurs(VerticalLimitsMarker, input) )
    => result = "structured_text"

\* C2 amended: a text that is not JSON and has no CSV header is classified
\* structured_text exactly when it holds AIRSPACE, Airspace, UPPER LIMIT or
\* LOWER LIMIT; the marker "VERTICAL LIMITS: FL100 - FL200" alone leaves it
\* generic
C2_MarkersDecideStructured ==
    ( /\ op = "detectFileFormat"
      /\ ~IsJsonText(input)
      /\ ~HasCsvHeader(input) )
    => /\ (result = "structured_text") = HasStructuredMarker(input)
       /\ (Occurs(VerticalLimitsMarker, input) /\ ~HasStructuredMarker(input))
              => result = "generic"

\* C2 witness: the VERTICAL LIMITS marker was in the text and the answer is
\* generic
C2_Witness ==
    /\ op = "detectFileFormat"
    /\ Occurs(VerticalLimitsMarker, input)
    /\ ~HasCsvHeader(input)
    /\ result = "generic"

(***************************************************************************)
(* Numbers and their decimal text.                                         *)
(***************************************************************************)
DigitValue ==
    [c \in Digits |->
        CASE c = "0" -> 0 [] c = "1" -> 1 [] c = "2" -> 2 [] c = "3" -> 3
          [] c = "4" -> 4 [] c = "5" -> 5 [] c = "6" -> 6 [] c = "7" -> 7
          [] c = "8" -> 8 [] c = "9" -> 9]

DigitChar == <<"0", "1", "2", "3", "4", "5", "6", "7", "8", "9">>

\* the number a run of decimal digits denotes
RECURSIVE DigitsToInt(_)
DigitsToInt(ds) ==
    IF ds = <<>> THEN 0
    ELSE 10 * DigitsToInt(SubSeq(ds, 1, Len(ds) - 1)) + DigitValue[ds[Len(ds)]]

RECURSIVE NatToChars(_)
NatToChars(n) ==
    IF n < 10 THEN <<DigitChar[n + 1]>>
    ELSE NatToChars(n \div 10) \o <<DigitChar[(n % 10) + 1]>>

\* the decimal text of an integer
IntToChars(n) == IF n < 0 THEN <<"-">> \o NatToChars(0 - n) ELSE NatToChars(n)

\* A number that is not an integer is a fraction in lowest terms: v over d.
\* The arithmetic of the source is carried out exactly on these fractions (the
\* binary rounding of the last digit of a double is not represented).
RECURSIVE GCD(_, _)
GCD(a, b) == IF b = 0 THEN a ELSE GCD(b, a % b)

Abs(n) == IF n < 0 THEN 0 - n ELSE n

Ratio(n, d) ==
    LET g == GCD(Abs(n), d)
    IN  IF d \div g = 1 THEN Num(n \div g)
        ELSE [t |-> "number", v |-> n \div g, d |-> d \div g, nan |-> FALSE]

Denom(x) == IF "d" \in DOMAIN x THEN x.d ELSE 1

\* x + y, x * y, x / y and -x; NaN in, NaN out
Plus(x, y) ==
    IF x.nan \/ y.nan THEN NaN
    ELSE Ratio(x.v * Denom(y) + y.v * Denom(x), Denom(x) * Denom(y))

Times(x, y) ==
    IF x.nan \/ y.nan THEN NaN ELSE Ratio(x.v * y.v, Denom(x) * Denom(y))

Over(x, n) == IF x.nan THEN NaN ELSE Ratio(x.v, Denom(x) * n)

RECURSIVE Pow10(_)
Pow10(n) == IF n = 0 THEN 1 ELSE 10 * Pow10(n - 1)

\* the digits after the decimal point of r / d (r < d), at most n of them
RECURSIVE FractionChars(_, _, _)
FractionChars(r, d, n) ==
    IF r = 0 \/ n = 0 THEN <<>>
    ELSE <<DigitChar[((10 * r) \div d) + 1]>> \o FractionChars((10 * r) % d, d, n - 1)

\* Number.prototype.toString: the decimal text of a number
NumberToChars(x) ==
    IF x.nan THEN <<"N", "a", "N">>
    ELSE IF Denom(x) = 1 THEN IntToChars(x.v)
    ELSE (IF x.v < 0 THEN <<"-">> ELSE <<>>)
            \o NatToChars(Abs(x.v) \div x.d) \o <<".">>
            \o FractionChars(Abs(x.v) % x.d, x.d, 16)

\* x.toString() for the primitive values; null and undefined have no methods
toString(x) ==
    CASE x.t = "string" -> x.v
      [] x.t = "number" -> NumberToChars(x)
      [] x.t = "boolean" -> IF x.v THEN <<"t", "r", "u", "e">> ELSE <<"f", "a", "l", "s", "e">>
      [] OTHER -> <<>>

\* x scaled by 10^n
ScaleBy(x, n) == IF n >= 0 THEN Times(x, Num(Pow10(n))) ELSE Over(x, Pow10(0 - n))

\* the position after an optional sign at k, and whether that sign is a minus
SignEnd(cs, k) == IF k <= Len(cs) /\ cs[k] \in {"+", "-"} THEN k + 1 ELSE k

IsMinus(cs, k) == k <= Len(cs) /\ cs[k] = "-"

\* the end of an optional "." and digits at e
FractionEnd(cs, e) == IF e <= Len(cs) /\ cs[e] = "." THEN JsonDigits(cs, e + 1) ELSE e

\* where the digits of an exponent at f start, 0 when there is no exponent
ExponentDigits(cs, f) ==
    IF f <= Len(cs) /\ cs[f] \in {"e", "E"} THEN SignEnd(cs, f + 1) ELSE 0

\* the exponent whose digits start at x
ExponentFrom(cs, x) ==
    IF x = 0 THEN 0
    ELSE IF cs[x - 1] = "-" THEN 0 - DigitsToInt(SubSeq(cs, x, JsonDigits(cs, x) - 1))
    ELSE DigitsToInt(SubSeq(cs, x, JsonDigits(cs, x) - 1))

\* the number with these integer digits, fraction digits and exponent
DecimalValue(intDigits, fracDigits, exponent) ==
    ScaleBy(Ratio(DigitsToInt(intDigits \o fracDigits), Pow10(Len(fracDigits))), exponent)

SignedDecimal(negative, intDigits, fracDigits, exponent) ==
    IF intDigits = <<>> /\ fracDigits = <<>> THEN NaN
    ELSE IF negative THEN Times(Num(-1), DecimalValue(intDigits, fracDigits, exponent))
    ELSE DecimalValue(intDigits, fracDigits, exponent)

\* the literal whose integer digits are d..e-1 and whose fraction ends before f
parseFloatDigits(cs, negative, d, e, f) ==
    SignedDecimal(negative, SubSeq(cs, d, e - 1),
                  IF f > e THEN SubSeq(cs, e + 1, f - 1) ELSE <<>>,
                  ExponentFrom(cs, ExponentDigits(cs, f)))

parseFloatFrom(cs, negative, d, e) ==
    parseFloatDigits(cs, negative, d, e, FractionEnd(cs, e))

parseFloatAt(cs, k) ==
    parseFloatFrom(cs, IsMinus(cs, k), SignEnd(cs, k), JsonDigits(cs, SignEnd(cs, k)))

\* parseFloat of a text: leading blanks, an optional sign, then the longest
\* prefix that is a decimal literal (digits, "." and digits, an exponent); NaN
\* when there is none.  ("Infinity" is not among the texts of the model.)
parseFloat(cs) == parseFloatAt(cs, JsonSkipWs(cs, 1))

\* the integer with these digits, NaN when there are none
IntegerOf(negative, ds) ==
    IF ds = <<>> THEN NaN
    ELSE IF negative THEN Num(0 - DigitsToInt(ds)) ELSE Num(DigitsToInt(ds))

parseIntAt(cs, k) ==
    IntegerOf(IsMinus(cs, k), SubSeq(cs, SignEnd(cs, k), JsonDigits(cs, SignEnd(cs, k)) - 1))

\* parseInt of a text, radix 10: leading blanks, an optional sign and a run of
\* digits; NaN when no digit follows.  (No text of the model starts with 0x.)
parseInt(cs) == parseIntAt(cs, JsonSkipWs(cs, 1))

\* r / d (r < d) in units of 10^-n, rounded down, by long division
RECURSIVE ScaledFraction(_, _, _)
ScaledFraction(r, d, n) ==
    IF n = 0 THEN 0
    ELSE ((10 * r) \div d) * Pow10(n - 1) + ScaledFraction((10 * r) % d, d, n - 1)

\* the remainder of that division
RECURSIVE ScaledRemainder(_, _, _)
ScaledRemainder(r, d, n) ==
    IF n = 0 THEN r ELSE ScaledRemainder((10 * r) % d, d, n - 1)

\* parseFloat(x.toFixed(6)): x rounded to six decimals, halves away from zero
toFixed6(x) ==
    IF x.nan \/ Denom(x) = 1 THEN x
    ELSE LET whole == Abs(x.v) \div x.d
             rest == Abs(x.v) % x.d
             micro == whole * 1000000 + ScaledFraction(rest, x.d, 6)
                        + (IF 2 * ScaledRemainder(rest, x.d, 6) >= x.d THEN 1 ELSE 0)
         IN  Ratio(IF x.v < 0 THEN 0 - micro ELSE micro, 1000000)

\* where the first run of digits of s starts (0 if s has no digit), and the run
FirstDigit(s) ==
    IF \E k \in 1..Len(s) : s[k] \in Digits
    THEN CHOOSE k \in 1..Len(s) :
            s[k] \in Digits /\ \A j \in 1..(k - 1) : s[j] \notin Digits
    ELSE 0

RECURSIVE DigitRunEnd(_, _)
DigitRunEnd(s, k) ==
    IF k + 1 <= Len(s) /\ s[k + 1] \in Digits THEN DigitRunEnd(s, k + 1) ELSE k

FirstDigitRun(s) ==
    IF FirstDigit(s) = 0 THEN <<>>
    ELSE SubSeq(s, FirstDigit(s), DigitRunEnd(s, FirstDigit(s)))

(***************************************************************************)
(* JSON.parse: the value a JSON text denotes.  The property names of an    *)
(* object value are those the program reads by name; a member under any    *)
(* other name is not represented in the value.                             *)
(***************************************************************************)
PropertyNames ==
    { <<"id", <<"i", "d">>>>,
      <<"name", <<"n", "a", "m", "e">>>>,
      <<"type", <<"t", "y", "p", "e">>>>,
      <<"airspaces", <<"a", "i", "r", "s", "p", "a", "c", "e", "s">>>>,
      <<"positions", <<"p", "o", "s", "i", "t", "i", "o", "n", "s">>>>,
      <<"airports", <<"a", "i", "r", "p", "o", "r", "t", "s">>>>,
      <<"boundaries", <<"b", "o", "u", "n", "d", "a", "r", "i", "e", "s">>>>,
      <<"latitude", <<"l", "a", "t", "i", "t", "u", "d", "e">>>>,
      <<"longitude", <<"l", "o", "n", "g", "i", "t", "u", "d", "e">>>>,
      <<"lat", <<"l", "a", "t">>>>,
      <<"lon", <<"l", "o", "n">>>>,
      <<"sequence", <<"s", "e", "q", "u", "e", "n", "c", "e">>>>,
      <<"upperLimit", <<"u", "p", "p", "e", "r", "L", "i", "m", "i", "t">>>>,
      <<"lowerLimit", <<"l", "o", "w", "e", "r", "L", "i", "m", "i", "t">>>>,
      <<"upper_limit", <<"u", "p", "p", "e", "r", "_", "l", "i", "m", "i", "t">>>>,
      <<"lower_limit", <<"l", "o", "w", "e", "r", "_", "l", "i", "m", "i", "t">>>>,
      <<"conditional", <<"c", "o", "n", "d", "i", "t", "i", "o", "n", "a", "l">>>>,
      <<"frequency", <<"f", "r", "e", "q", "u", "e", "n", "c", "y">>>>,
      <<"callsign", <<"c", "a", "l", "l", "s", "i", "g", "n">>>>,
      <<"icao", <<"i", "c", "a", "o">>>>,
      <<"coordinates", <<"c", "o", "o", "r", "d", "i", "n", "a", "t", "e", "s">>>>,
      <<"metadata", <<"m", "e", "t", "a", "d", "a", "t", "a">>>>,
      <<"length", <<"l", "e", "n", "g", "t", "h">>>>,
      <<"value", <<"v", "a", "l", "u", "e">>>>,
      <<"unit", <<"u", "n", "i", "t">>>>,
      <<"reference", <<"r", "e", "f", "e", "r", "e", "n", "c", "e">>>>,
      <<"elevation", <<"e", "l", "e", "v", "a", "t", "i", "o", "n">>>>,
      <<"class", <<"c", "l", "a", "s", "s">>>>,
      <<"source", <<"s", "o", "u", "r", "c", "e">>>> }

IsPropertyName(cs) == \E e \in PropertyNames : e[2] = cs

PropertyName(cs) == (CHOOSE e \in PropertyNames : e[2] = cs)[1]

JsonEscape(c) ==
    CASE c = "n" -> "\n" [] c = "t" -> "\t" [] c = "r" -> "\r"
      [] c = "b" -> "\\b" [] c = "f" -> "\f" [] OTHER -> c

\* the characters of a string literal, from the position after its opening quote
RECURSIVE JsonStringChars(_, _)
JsonStringChars(s, k) ==
    IF s[k] = "\"" THEN <<>>
    ELSE IF s[k] = "\\" THEN <<JsonEscape(s[k + 1])>> \o JsonStringChars(s, k + 2)
    ELSE <<s[k]>> \o JsonStringChars(s, k + 1)

RECURSIVE JsonValueOf(_, _)
RECURSIVE JsonElementsOf(_, _)
RECURSIVE JsonMembersOf(_, _)

\* the values of the elements of an array, from the position of the first
JsonElementsOf(s, k) ==
    LET b == JsonSkipWs(s, k)
        a == JsonSkipWs(s, JsonValue(s, b))
    IN  <<JsonValueOf(s, b)>> \o (IF s[a] = "," THEN JsonElementsOf(s, a + 1) ELSE <<>>)

\* the <<key, value>> pairs of the members of an object
JsonMembersOf(s, k) ==
    LET q == JsonSkipWs(s, k)
        c == JsonSkipWs(s, JsonString(s, q))
        b == JsonSkipWs(s, c + 1)
        a == JsonSkipWs(s, JsonValue(s, b))
    IN  << <<JsonStringChars(s, q + 1), JsonValueOf(s, b)>> >>
            \o (IF s[a] = "," THEN JsonMembersOf(s, a + 1) ELSE <<>>)

\* the object with the given members; of two members of one name the later wins
ObjectFromMembers(ms) ==
    Obj([n \in { PropertyName(ms[k][1]) : k \in { j \in 1..Len(ms) : IsPropertyName(ms[j][1]) } } |->
            ms[CHOOSE k \in 1..Len(ms) :
                    /\ IsPropertyName(ms[k][1]) /\ PropertyName(ms[k][1]) = n
                    /\ \A j \in (k + 1)..Len(ms) : ms[j][1] # ms[k][1]][2]])

JsonValueOf(s, k) ==
    IF s[k] = "[" THEN
        IF s[JsonSkipWs(s, k + 1)] = "]" THEN Arr(<<>>) ELSE Arr(JsonElementsOf(s, k + 1))
    ELSE IF s[k] = "{" THEN
        IF s[JsonSkipWs(s, k + 1)] = "}" THEN EmptyObj
        ELSE ObjectFromMembers(JsonMembersOf(s, k + 1))
    ELSE IF s[k] = "\"" THEN Str(JsonStringChars(s, k + 1))
    ELSE IF s[k] \in Digits \cup {"-"} THEN parseFloat(SubSeq(s, k, JsonNumber(s, k) - 1))
    ELSE IF s[k] = "t" THEN Bool(TRUE)
    ELSE IF s[k] = "f" THEN Bool(FALSE)
    ELSE Null

SyntaxError == Throw("SyntaxError: Unexpected token in JSON")

JSONparse(content) ==
    IF JSONparses(content) THEN JsonValueOf(content, JsonSkipWs(content, 1)) ELSE SyntaxError

(***************************************************************************)
(* normalizeAltitude (array-format converter)                              *)
(***************************************************************************)
AltitudeObject(value, unit, reference) ==
    Obj([value |-> Num(value), unit |-> Str(unit), reference |-> Str(reference)])

FL == <<"F", "L">>
FT == <<"F", "T">>
STD == <<"S", "T", "D">>
AGL == <<"A", "G", "L">>
AMSL == <<"A", "M", "S", "L">>
UNL == <<"U", "N", "L">>
GND == <<"G", "N", "D">>
SFC == <<"S", "F", "C">>
UNLIMITED == <<"U", "N", "L", "I", "M", "I", "T", "E", "D">>
GROUND == <<"G", "R", "O", "U", "N", "D">>
ABOVE_GROUND == <<"A", "B", "O", "V", "E", " ", "G", "R", "O", "U", "N", "D">>

\* both /F?L?(\d+)/ and /(\d+)\s*(FT|'|FEET|AMSL|AGL)?/ are unanchored and
\* their only mandatory part is \d+: each matches exactly when the text has a
\* digit, and group 1 is the first run of digits
flMatch(altStr) == FirstDigitRun(altStr)
ftMatch(altStr) == FirstDigitRun(altStr)

normalizeAltitude(altitude) ==
    IF typeof(altitude) = "object" THEN altitude
    ELSE IF altitude.t = "undefined" THEN TypeErrorRead
    ELSE LET altStr == trim(toUpperCase(toString(altitude)))
         IN  IF altStr = UNL \/ altStr = UNLIMITED THEN AltitudeObject(999, FL, STD)
             ELSE IF altStr = GND \/ altStr = GROUND \/ altStr = SFC
                  THEN AltitudeObject(0, FT, AGL)
             ELSE IF flMatch(altStr) # <<>> /\ DigitsToInt(flMatch(altStr)) > 180
                  THEN AltitudeObject(DigitsToInt(flMatch(altStr)), FL, STD)
             ELSE IF ftMatch(altStr) # <<>>
                  THEN AltitudeObject(DigitsToInt(ftMatch(altStr)), FT,
                          IF includes(altStr, AGL) \/ includes(altStr, ABOVE_GROUND)
                          THEN AGL ELSE AMSL)
             ELSE AltitudeObject(0, FT, AMSL)

(***************************************************************************)
(* Altitudes handed to normalizeAltitude: an optional prefix, a number, an *)
(* optional blank and an optional unit; the keywords in both cases; and    *)
(* values that are not strings.                                            *)
(***************************************************************************)
AltPrefixes == { <<>>, <<"F", "L">>, <<"f", "l">>, <<"F">>, <<"A">> }
AltNumbers ==
    { <<>>, <<"0">>, <<"9", "0">>, <<"1", "8", "0">>, <<"1", "8", "1">>,
      <<"2", "4", "5">>, <<"1", "5", "0", "0">>, <<"5", "0", "0", "0">>,
      <<"2", "4", "5", "0", "0">> }
AltBlanks == { <<>>, <<" ">> }
AltUnits ==
    { <<>>, <<"F", "T">>, <<"f", "t">>, <<"'">>, <<"F", "E", "E", "T">>,
      <<"A", "M", "S", "L">>, <<"A", "G", "L">> }
AltKeywords ==
    { UNL, UNLIMITED, GND, GROUND, SFC, <<"u", "n", "l">>, <<" ", "G", "N", "D", " ">>,
      <<"s", "f", "c">>, <<"N", "O", "T", "A", "M">> }

AltitudeInputs ==
    { Str(p \o n \o b \o u) : p \in AltPrefixes, n \in AltNumbers, b \in AltBlanks, u \in AltUnits }
    \cup { Str(k) : k \in AltKeywords }
    \cup { Num(0), Num(245), Num(5000), Bool(TRUE), Null, AltitudeObject(999, FL, STD) }

InitAltitude ==
    /\ op = "input"
    /\ input \in AltitudeInputs
    /\ result = NoResult
    /\ ScanIdle
    /\ RendererIdle

NormalizeAltitude ==
    /\ op = "input"
    /\ op' = "normalizeAltitude"
    /\ result' = normalizeAltitude(input)
    /\ UNCHANGED <<input, scanVars, rendererVars>>

NextAltitude == NormalizeAltitude

SpecAltitude == InitAltitude /\ [][NextAltitude]_vars

\* a value given in feet: digits, an optional blank, then FT, AMSL or AGL,
\* and nothing before the digits
IsFeetText(x) ==
    /\ x.t = "string"
    /\ \E n \in AltNumbers \ {<<>>}, b \in AltBlanks, u \in {FT, AMSL, AGL} :
          x.v = n \o b \o u

\* C7 as stated: UNL -> {999,FL,STD}; GND -> {0,FT,AGL}; FL245 -> {245,FL,STD};
\* 5000FT -> {5000,FT,AMSL}; 5000 AGL -> {5000,FT,AGL}; and every value given
\* in feet (digits then FT, AMSL or AGL, no FL prefix) is normalized with
\* unit FT, never FL
C7_AltitudeTable ==
    op = "normalizeAltitude" =>
        /\ input = Str(UNL) => result = AltitudeObject(999, FL, STD)
        /\ input = Str(GND) => result = AltitudeObject(0, FT, AGL)
        /\ input = Str(<<"F", "L", "2", "4", "5">>) => result = AltitudeObject(245, FL, STD)
        /\ input = Str(<<"5", "0", "0", "0", "F", "T">>)
              => result = AltitudeObject(5000, FT, AMSL)
        /\ input = Str(<<"5", "0", "0", "0", " ", "A", "G", "L">>)
              => result = AltitudeObject(5000, FT, AGL)
        /\ IsFeetText(input) => result.v.unit = Str(FT)

(***************************************************************************)
(* The array-format converter: convertToVATGlasses and its helpers.        *)
(***************************************************************************)
With(o, name, val) ==
    Obj([n \in DOMAIN o.v \cup {name} |-> IF n = name THEN val ELSE o.v[n]])

\* x || y
OrElse(x, y) == IF Truthy(x) THEN x ELSE y

\* String(x), as parseFloat applies it to an argument that is not a string
StringOf(x) ==
    CASE x.t \in {"string", "number", "boolean"} -> toString(x)
      [] x.t = "null" -> <<"n", "u", "l", "l">>
      [] x.t = "undefined" -> <<"u", "n", "d", "e", "f", "i", "n", "e", "d">>
      [] x.t = "array" -> IF Len(x.v) = 1 /\ x.v[1].t \in {"string", "number"}
                          THEN toString(x.v[1]) ELSE <<>>
      [] OTHER -> <<"[", "o", "b", "j", "e", "c", "t", " ", "O", "b", "j", "e", "c", "t", "]">>

\* isNaN(num) ? 0 : parseFloat(num.toFixed(6))
roundedOrZero(num) == IF num.nan THEN Num(0) ELSE toFixed6(num)

normalizeCoordinate(coord) ==
    IF coord.t = "number" THEN toFixed6(coord)
    ELSE roundedOrZero(parseFloat(StringOf(coord)))

\* `${prefix}_${timestamp}_${random}`.toUpperCase(), the clock and the random
\* draw being those of the stamp
generateId(prefix, stamp) ==
    Str(toUpperCase(prefix \o <<"_">> \o stamp.time \o <<"_">> \o stamp.random))

typeMap ==
    { <<<<"C", "L", "A", "S", "S", " ", "A">>, <<"A">>>>,
      <<<<"C", "L", "A", "S", "S", " ", "B">>, <<"B">>>>,
      <<<<"C", "L", "A", "S", "S", " ", "C">>, <<"C">>>>,
      <<<<"C", "L", "A", "S", "S", " ", "D">>, <<"D">>>>,
      <<<<"C", "L", "A", "S", "S", " ", "E">>, <<"E">>>>,
      <<<<"C", "L", "A", "S", "S", " ", "F">>, <<"F">>>>,
      <<<<"C", "L", "A", "S", "S", " ", "G">>, <<"G">>>>,
      <<<<"C", "O", "N", "T", "R", "O", "L", " ", "Z", "O", "N", "E">>, <<"C", "T", "R">>>>,
      <<<<"C", "T", "R">>, <<"C", "T", "R">>>>,
      <<<<"C", "O", "N", "T", "R", "O", "L", " ", "A", "R", "E", "A">>, <<"C", "T", "A">>>>,
      <<<<"C", "T", "A">>, <<"C", "T", "A">>>>,
      <<<<"T", "E", "R", "M", "I", "N", "A", "L", " ", "C", "O", "N", "T", "R", "O", "L",
          " ", "A", "R", "E", "A">>, <<"T", "M", "A">>>>,
      <<<<"T", "M", "A">>, <<"T", "M", "A">>>>,
      <<<<"R", "E", "S", "T", "R", "I", "C", "T", "E", "D">>, <<"R">>>>,
      <<<<"P", "R", "O", "H", "I", "B", "I", "T", "E", "D">>, <<"P">>>>,
      <<<<"D", "A", "N", "G", "E", "R">>, <<"D">>>>,
      <<<<"M", "I", "L", "I", "T", "A", "R", "Y">>, <<"M">>>> }

\* type.toUpperCase is a function only when type is a string
normalizeAirspaceType(type) ==
    IF ~Truthy(type) THEN Str(<<"O", "T", "H", "E", "R">>)
    ELSE IF type.t # "string" THEN TypeErrorCall
    ELSE LET upperType == trim(toUpperCase(type.v))
         IN  IF \E e \in typeMap : e[1] = upperType
             THEN Str((CHOOSE e \in typeMap : e[1] = upperType)[2])
             ELSE Str(upperType)

\* array.map(f): the mapped array, or the first exception f ended with
MapResult(seq) == IF FirstThrow(seq) # NoResult THEN FirstThrow(seq) ELSE Arr(seq)

\* x && x.length > 0 for a value that may be anything
HasElements(x) ==
    Truthy(x) /\ Get(x, "length").t = "number" /\ Get(x, "length").v > 0

\* set a property of an object under construction; an exception met while
\* computing the value ends the call
Put(o, name, val) ==
    IF IsThrow(o) THEN o ELSE IF IsThrow(val) THEN val ELSE With(o, name, val)

PutIf(cond, o, name, val) == IF IsThrow(o) \/ ~cond THEN o ELSE Put(o, name, val)

\* one statement of a function body: if (cond) o[name] = val
Step(cond, name, val) == [cond |-> cond, name |-> name, val |-> val]

\* the object after the statements, in order
RECURSIVE Assign(_, _)
Assign(o, steps) ==
    IF Len(steps) = 0 THEN o
    ELSE Assign(PutIf(Head(steps).cond, o, Head(steps).name, Head(steps).val), Tail(steps))

\* Array.isArray(x) ? x : [x]
AsArray(x) == IF IsArray(x) THEN x ELSE Arr(<<x>>)

convertBoundary(boundary) ==
    IF IsThrow(Get(boundary, "latitude")) THEN Get(boundary, "latitude")
    ELSE Obj([lat |-> normalizeCoordinate(Get(boundary, "latitude")),
              lon |-> normalizeCoordinate(Get(boundary, "longitude"))])

\* only the boundaries whose latitude reads other than 0 are kept
convertBoundaries_WithLatitude(boundaries) ==
    IF boundaries.t = "array"
    THEN MapResult(SelectSeq([k \in 1..Len(boundaries.v) |-> convertBoundary(boundaries.v[k])],
                             LAMBDA b : b.v.lat # Num(0)))
    ELSE TypeErrorCall

\* the boundaries mapped last to first
convertBoundaries_Reversed(boundaries) ==
    IF boundaries.t = "array"
    THEN MapResult([k \in 1..Len(boundaries.v) |->
                        convertBoundary(boundaries.v[Len(boundaries.v) + 1 - k])])
    ELSE TypeErrorCall

\* airspace.boundaries.map(boundary => ...); map is a function only of an array
convertBoundaries(boundaries) ==
    IF boundaries.t = "array"
    THEN MapResult([k \in 1..Len(boundaries.v) |-> convertBoundary(boundaries.v[k])])
    ELSE TypeErrorCall

convertAirspace(airspace, stamp) ==
    IF IsThrow(Get(airspace, "id")) THEN Get(airspace, "id")
    ELSE Assign(EmptyObj,
        << Step(TRUE, "id",
                OrElse(Get(airspace, "id"),
                       generateId(<<"A", "I", "R", "S", "P", "A", "C", "E">>, stamp))),
           Step(TRUE, "name",
                OrElse(Get(airspace, "name"),
                       Str(<<"U", "n", "k", "n", "o", "w", "n", " ",
                             "A", "i", "r", "s", "p", "a", "c", "e">>))),
           Step(TRUE, "type", normalizeAirspaceType(Get(airspace, "type"))),
           Step(TRUE, "boundaries", Arr(<<>>)),
           Step(Truthy(Get(airspace, "upperLimit")),
                "ceiling", normalizeAltitude(Get(airspace, "upperLimit"))),
           Step(Truthy(Get(airspace, "lowerLimit")),
                "floor", normalizeAltitude(Get(airspace, "lowerLimit"))),
           Step(HasElements(Get(airspace, "boundaries")),
                "boundaries", convertBoundaries(Get(airspace, "boundaries"))),
           Step(Get(airspace, "conditional") # Undefined,
                "conditional", Get(airspace, "conditional")),
           Step(Truthy(Get(airspace, "class")), "class", Get(airspace, "class")),
           Step(Truthy(Get(airspace, "frequency")),
                "frequency", Get(airspace, "frequency")) >>)

\* position.type.toUpperCase(); toUpperCase is a function only of a string
typeToUpperCase(type) == IF type.t = "string" THEN Str(toUpperCase(type.v)) ELSE TypeErrorCall

convertPosition(position, stamp) ==
    IF IsThrow(Get(position, "id")) THEN Get(position, "id")
    ELSE Assign(EmptyObj,
        << Step(TRUE, "id",
                OrElse(Get(position, "id"), generateId(<<"P", "O", "S">>, stamp))),
           Step(TRUE, "callsign",
                OrElse(Get(position, "callsign"), Get(position, "name"))),
           Step(TRUE, "frequency",
                OrElse(Get(position, "frequency"),
                       Str(<<"0", "0", "0", ".", "0", "0", "0">>))),
           Step(TRUE, "name",
                OrElse(Get(position, "name"),
                       Str(<<"U", "n", "k", "n", "o", "w", "n", " ",
                             "P", "o", "s", "i", "t", "i", "o", "n">>))),
           Step(Truthy(Get(position, "type")), "type", typeToUpperCase(Get(position, "type"))),
           Step(Truthy(Get(position, "latitude")) /\ Truthy(Get(position, "longitude")),
                "coordinates",
                Obj([lat |-> normalizeCoordinate(Get(position, "latitude")),
                     lon |-> normalizeCoordinate(Get(position, "longitude"))])),
           Step(Truthy(Get(position, "airspace")),
                "airspace", AsArray(Get(position, "airspace"))) >>)

convertAirport(airport) ==
    IF IsThrow(Get(airport, "icao")) THEN Get(airport, "icao")
    ELSE Assign(EmptyObj,
        << Step(TRUE, "icao", OrElse(Get(airport, "icao"), Get(airport, "code"))),
           Step(TRUE, "name",
                OrElse(Get(airport, "name"),
                       Str(<<"U", "n", "k", "n", "o", "w", "n", " ",
                             "A", "i", "r", "p", "o", "r", "t">>))),
           Step(TRUE, "coordinates",
                Obj([lat |-> normalizeCoordinate(Get(airport, "latitude")),
                     lon |-> normalizeCoordinate(Get(airport, "longitude"))])),
           Step(Get(airport, "elevation") # Undefined,
                "elevation", Get(airport, "elevation")),
           Step(Truthy(Get(airport, "runways")), "runways", Get(airport, "runways")),
           Step(Truthy(Get(airport, "positions")),
                "ownership", AsArray(Get(airport, "positions"))) >>)

\* parsedData.metadata?.source
MetadataSource(parsedData) ==
    IF Get(parsedData, "metadata").t \in {"undefined", "null"} THEN Undefined
    ELSE Get(Get(parsedData, "metadata"), "source")

\* parsedData.airspaces.map(convertAirspace), and the same of the other lists;
\* map is a function only of an array
mapAirspaces(list, stamp) ==
    IF list.t = "array"
    THEN MapResult([k \in 1..Len(list.v) |-> convertAirspace(list.v[k], stamp)])
    ELSE TypeErrorCall

mapPositions(list, stamp) ==
    IF list.t = "array"
    THEN MapResult([k \in 1..Len(list.v) |-> convertPosition(list.v[k], stamp)])
    ELSE TypeErrorCall

mapAirports(list) ==
    IF list.t = "array"
    THEN MapResult([k \in 1..Len(list.v) |-> convertAirport(list.v[k])])
    ELSE TypeErrorCall

\* convertToVATGlasses without the three empty lists it starts from
convertToVATGlasses_NoLists(parsedData, stamp) ==
    IF IsThrow(Get(parsedData, "metadata")) THEN Get(parsedData, "metadata")
    ELSE Assign(
        Obj([metadata |-> Obj([generatedAt |-> Str(stamp.iso),
                               source |-> OrElse(MetadataSource(parsedData),
                                                 Str(<<"D", "A", "H", " ", "F", "i", "l", "e">>)),
                               version |-> Str(<<"1", ".", "0">>)])]),
        << Step(HasElements(Get(parsedData, "airspaces")),
                "airspace", mapAirspaces(Get(parsedData, "airspaces"), stamp)),
           Step(HasElements(Get(parsedData, "positions")),
                "positions", mapPositions(Get(parsedData, "positions"), stamp)),
           Step(HasElements(Get(parsedData, "airports")),
                "airports", mapAirports(Get(parsedData, "airports")) ) >>)

convertToVATGlasses(parsedData, stamp) ==
    IF IsThrow(Get(parsedData, "metadata")) THEN Get(parsedData, "metadata")
    ELSE Assign(
        Obj([airspace |-> Arr(<<>>),
             positions |-> Arr(<<>>),
             airports |-> Arr(<<>>),
             metadata |-> Obj([generatedAt |-> Str(stamp.iso),
                               source |-> OrElse(MetadataSource(parsedData),
                                                 Str(<<"D", "A", "H", " ", "F", "i", "l", "e">>)),
                               version |-> Str(<<"1", ".", "0">>)])]),
        << Step(HasElements(Get(parsedData, "airspaces")),
                "airspace", mapAirspaces(Get(parsedData, "airspaces"), stamp)),
           Step(HasElements(Get(parsedData, "positions")),
                "positions", mapPositions(Get(parsedData, "positions"), stamp)),
           Step(HasElements(Get(parsedData, "airports")),
                "airports", mapAirports(Get(parsedData, "airports")) ) >>)

(***************************************************************************)
(* parseJSONFormat, on the value JSON.parse returned.                      *)
(***************************************************************************)
SourceName ==
    <<"A", "i", "r", " ", "S", "e", "r", "v", "i", "c", "e", "s", " ",
      "A", "u", "s", "t", "r", "a", "l", "i", "a", " ", "D", "A", "H">>

\* the parsedData object parseDAHFile starts from
NewParsedData(iso) ==
    Obj([airspaces |-> Arr(<<>>),
         positions |-> Arr(<<>>),
         airports |-> Arr(<<>>),
         metadata |-> Obj([parseDate |-> Str(iso), source |-> Str(SourceName)])])

\* parseJSONFormat after its JSON.parse: the branches on the document; the
\* exception of JSON.parse passes through
parseJSONDocument(jsonData, parsedData) ==
    IF IsThrow(jsonData) THEN jsonData
    ELSE IF IsArray(jsonData) THEN With(parsedData, "airspaces", jsonData)
    ELSE IF IsThrow(Get(jsonData, "airspaces")) THEN Get(jsonData, "airspaces")
    ELSE IF Truthy(Get(jsonData, "airspaces"))
         THEN With(parsedData, "airspaces", Get(jsonData, "airspaces"))
    ELSE With(parsedData, "airspaces", Arr(<<jsonData>>))

parseJSONFormat(content, parsedData) == parseJSONDocument(JSONparse(content), parsedData)

(***************************************************************************)
(* Values handed to the converter.                                         *)
(***************************************************************************)
Stamps ==
    { [iso |-> <<"t", "1">>, time |-> <<"k", "1">>, random |-> <<"r", "1">>],
      [iso |-> <<"t", "2">>, time |-> <<"k", "2">>, random |-> <<"r", "2">>] }

Point(lat, lon) == Obj([latitude |-> Num(lat), longitude |-> Num(lon)])

\* a record as the CSV parser builds it
CsvStyleRecord ==
    Obj([id |-> Str(<<"A", "1">>), name |-> Str(<<"O", "n", "e">>),
         type |-> Str(<<"c", "o", "n", "t", "r", "o", "l", " ", "z", "o", "n", "e">>),
         boundaries |-> Arr(<<Point(1, 2), Point(3, 4)>>),
         upperLimit |-> Str(<<"F", "L", "2", "4", "5">>),
         lowerLimit |-> Str(GND),
         conditional |-> Bool(FALSE)])

\* a record as parseAirspaceText builds it
TextStyleRecord ==
    Obj([id |-> Str(<<"Y", "B", "B", "B", "/", "B", "N">>), name |-> Str(<<"B", "N">>),
         locations |-> Arr(<<Str(<<"Y", "B", "B", "B">>)>>),
         boundaries |-> Arr(<<Point(5, 6)>>),
         upperLimit |-> Str(UNL), lowerLimit |-> Str(<<"1", "5", "0", "0">>),
         controllingAuthority |-> Null, frequencies |-> Arr(<<>>),
         hoursOfOperation |-> Null])

\* a record of the converter's own output
ConvertedRecord ==
    Obj([id |-> Str(<<"A", "1">>), name |-> Str(<<"O", "n", "e">>),
         type |-> Str(<<"C", "T", "R">>),
         ceiling |-> AltitudeObject(245, FL, STD),
         floor |-> AltitudeObject(0, FT, AGL),
         boundaries |-> Arr(<<Obj([lat |-> Num(1), lon |-> Num(2)])>>)])

\* entries of a JSON airspaces array: whatever the document holds
AirspaceRecords ==
    { CsvStyleRecord, TextStyleRecord, ConvertedRecord,
      EmptyObj,
      Null,
      Num(7),
      Obj([id |-> Str(<<"A", "2">>), type |-> Num(5)]),
      Obj([id |-> Null, type |-> Null, upperLimit |-> Null, boundaries |-> Null]),
      Obj([upperLimit |-> Num(5000), lowerLimit |-> Bool(TRUE), boundaries |-> Num(3)]),
      Obj([boundaries |-> Str(<<"a", "b">>)]),
      Obj([boundaries |-> Arr(<<Null>>)]) }

PositionRecords ==
    { EmptyObj,
      Obj([id |-> Str(<<"P", "1">>), callsign |-> Str(<<"B", "N", "_", "C", "T", "R">>),
           frequency |-> Str(<<"1", "2", "5", ".", "7">>), name |-> Str(<<"B", "N">>),
           type |-> Str(<<"c", "t", "r">>), latitude |-> Num(1), longitude |-> Num(2),
           airspace |-> Str(<<"A", "1">>)]),
      Obj([name |-> Str(<<"B", "N">>)]),
      Obj([callsign |-> Str(<<"B", "N", "_", "C", "T", "R">>)]),
      Obj([frequency |-> Str(<<"1", "2", "5", ".", "7">>), type |-> Num(1)]) }

AirportRecords ==
    { EmptyObj,
      Obj([icao |-> Str(<<"Y", "B", "B", "N">>), name |-> Str(<<"B", "N">>),
           latitude |-> Num(1), longitude |-> Str(<<"1", "5", "3">>),
           elevation |-> Num(13), positions |-> Arr(<<Str(<<"P", "1">>)>>)]),
      Obj([code |-> Str(<<"Y", "B", "B", "N">>)]) }

ListsOf(S, n) == UNION { [1..k -> S] : k \in 0..n }

\* an object with the properties whose value is not Undefined
ObjectOf(f) == Obj([n \in {m \in DOMAIN f : f[m] # Undefined} |-> f[n]])

\* documents JSON.parse can return to parseJSONFormat
JsonDocuments ==
    { Arr(l) : l \in ListsOf(AirspaceRecords, MaxRecords) }
    \cup { Obj([airspaces |-> x]) :
             x \in { Str(<<"a", "b">>), Num(3), Null, Arr(<<CsvStyleRecord>>),
                     Obj([length |-> Num(2)]) } }
    \cup { CsvStyleRecord, EmptyObj,
           Obj([positions |-> Arr(<<EmptyObj>>), airports |-> Arr(<<EmptyObj>>)]) }

ParseStamp == <<"t", "0">>

HandedByJsonParser == { parseJSONDocument(j, NewParsedData(ParseStamp)) : j \in JsonDocuments }

\* values a caller can build by hand: every top-level property optional
DirectInputs ==
    { ObjectOf([airspaces |-> a, positions |-> p, airports |-> q, metadata |-> m]) :
        a \in {Undefined, Arr(<<>>), Arr(<<TextStyleRecord>>)},
        p \in {Undefined, Arr(<<>>)} \cup { Arr(<<r>>) : r \in PositionRecords },
        q \in {Undefined, Arr(<<>>)} \cup { Arr(<<r>>) : r \in AirportRecords },
        m \in {Undefined, Obj([source |-> Str(<<"m", "y">>)])} }

ConvertInputs == HandedByJsonParser \cup DirectInputs

InitConvert ==
    /\ op = "input"
    /\ input \in ConvertInputs
    /\ result = NoResult
    /\ ScanIdle
    /\ RendererIdle

ConvertToVATGlasses ==
    /\ op = "input"
    /\ \E stamp \in Stamps :
          /\ op' = "convertToVATGlasses"
          /\ result' = convertToVATGlasses(input, stamp)
    /\ UNCHANGED <<input, scanVars, rendererVars>>

NextConvert == ConvertToVATGlasses

SpecConvert == InitConvert /\ [][NextConvert]_vars

\* C6 as stated: for every input, the output of convertToVATGlasses holds
\* airspace, positions and airports as arrays and a metadata object with
\* generatedAt, source and version "1.0"
C6_OutputShape ==
    op = "convertToVATGlasses" =>
        /\ result.t = "object"
        /\ IsArray(Get(result, "airspace"))
        /\ IsArray(Get(result, "positions"))
        /\ IsArray(Get(result, "airports"))
        /\ Get(result, "metadata").t = "object"
        /\ Get(Get(result, "metadata"), "generatedAt").t = "string"
        /\ Get(Get(result, "metadata"), "source") # Undefined
        /\ Get(Get(result, "metadata"), "version") = Str(<<"1", ".", "0">>)

\* C10 as stated: for every value a parser can hand it (records taken
\* verbatim from JSON input included), convertToVATGlasses returns an output
\* and does not throw
C10_ConvertTotal ==
    (op = "convertToVATGlasses" /\ input \in HandedByJsonParser) => ~IsThrow(result)

(***************************************************************************)
(* validateVATGlassesData.  A message is the tuple of its fixed words and  *)
(* the index or id interpolated into it.                                   *)
(***************************************************************************)
\* arr.forEach(f) where f pushes messages: all the messages in order, or the
\* exception the first failing call ended with
RECURSIVE ConcatAll(_)
ConcatAll(seqs) ==
    IF seqs = <<>> THEN <<>> ELSE Head(seqs).v \o ConcatAll(Tail(seqs))

ForEachMessages(perRecord) ==
    IF FirstThrow(perRecord) # NoResult THEN FirstThrow(perRecord)
    ELSE Arr(ConcatAll(perRecord))

AirspaceWarnings(airspace, index) ==
    IF IsThrow(Get(airspace, "id")) THEN Get(airspace, "id")
    ELSE Arr(
         (IF ~Truthy(Get(airspace, "id"))
          THEN <<<<"Airspace at index", Num(index), "missing id">>>> ELSE <<>>)
      \o (IF ~Truthy(Get(airspace, "name"))
          THEN <<<<"Airspace at index", Num(index), "missing name">>>> ELSE <<>>)
      \o (IF \/ ~Truthy(Get(airspace, "boundaries"))
             \/ Get(Get(airspace, "boundaries"), "length") = Num(0)
          THEN <<<<"Airspace", OrElse(Get(airspace, "id"), Num(index)),
                   "has no boundaries">>>>
          ELSE <<>>))

PositionWarnings(position, index) ==
    IF IsThrow(Get(position, "callsign")) THEN Get(position, "callsign")
    ELSE Arr(
         (IF ~Truthy(Get(position, "callsign"))
          THEN <<<<"Position at index", Num(index), "missing callsign">>>> ELSE <<>>)
      \o (IF ~Truthy(Get(position, "frequency"))
          THEN <<<<"Position at index", Num(index), "missing frequency">>>> ELSE <<>>))

AirportWarnings(airport, index) ==
    IF IsThrow(Get(airport, "icao")) THEN Get(airport, "icao")
    ELSE Arr(
         (IF ~Truthy(Get(airport, "icao"))
          THEN <<<<"Airport at index", Num(index), "missing ICAO code">>>> ELSE <<>>)
      \o (IF ~Truthy(Get(airport, "coordinates"))
          THEN <<<<"Airport at index", Num(index), "missing coordinates">>>> ELSE <<>>))

\* every missing field of a record reported as an error
validateVATGlassesData_FieldsAsErrors(data) ==
    IF IsThrow(Get(data, "airspace")) THEN Get(data, "airspace")
    ELSE
    LET a == Get(data, "airspace")
        p == Get(data, "positions")
        q == Get(data, "airports")
        e0 == IF ~Truthy(a) /\ ~Truthy(p) /\ ~Truthy(q)
              THEN <<"Data must contain at least one of: airspace, positions, or airports">>
              ELSE <<>>
        e1 == IF Truthy(a) /\ ~IsArray(a) THEN <<"airspace must be an array">> ELSE <<>>
        e2 == IF Truthy(p) /\ ~IsArray(p) THEN <<"positions must be an array">> ELSE <<>>
        e3 == IF Truthy(q) /\ ~IsArray(q) THEN <<"airports must be an array">> ELSE <<>>
        w1 == IF IsArray(a)
              THEN ForEachMessages([k \in 1..Len(a.v) |-> AirspaceWarnings(a.v[k], k - 1)])
              ELSE Arr(<<>>)
        w2 == IF IsArray(p)
              THEN ForEachMessages([k \in 1..Len(p.v) |-> PositionWarnings(p.v[k], k - 1)])
              ELSE Arr(<<>>)
        w3 == IF IsArray(q)
              THEN ForEachMessages([k \in 1..Len(q.v) |-> AirportWarnings(q.v[k], k - 1)])
              ELSE Arr(<<>>)
    IN  IF IsThrow(w1) THEN w1
        ELSE IF IsThrow(w2) THEN w2
        ELSE IF IsThrow(w3) THEN w3
        ELSE Obj([valid |-> Bool(e0 \o e1 \o e2 \o e3 \o w1.v \o w2.v \o w3.v = <<>>),
                  errors |-> Arr(e0 \o e1 \o e2 \o e3 \o w1.v \o w2.v \o w3.v),
                  warnings |-> Arr(<<>>)])

validateVATGlassesData(data) ==
    IF IsThrow(Get(data, "airspace")) THEN Get(data, "airspace")
    ELSE
    LET a == Get(data, "airspace")
        p == Get(data, "positions")
        q == Get(data, "airports")
        e0 == IF ~Truthy(a) /\ ~Truthy(p) /\ ~Truthy(q)
              THEN <<"Data must contain at least one of: airspace, positions, or airports">>
              ELSE <<>>
        e1 == IF Truthy(a) /\ ~IsArray(a) THEN <<"airspace must be an array">> ELSE <<>>
        e2 == IF Truthy(p) /\ ~IsArray(p) THEN <<"positions must be an array">> ELSE <<>>
        e3 == IF Truthy(q) /\ ~IsArray(q) THEN <<"airports must be an array">> ELSE <<>>
        w1 == IF IsArray(a)
              THEN ForEachMessages([k \in 1..Len(a.v) |-> AirspaceWarnings(a.v[k], k - 1)])
              ELSE Arr(<<>>)
        w2 == IF IsArray(p)
              THEN ForEachMessages([k \in 1..Len(p.v) |-> PositionWarnings(p.v[k], k - 1)])
              ELSE Arr(<<>>)
        w3 == IF IsArray(q)
              THEN ForEachMessages([k \in 1..Len(q.v) |-> AirportWarnings(q.v[k], k - 1)])
              ELSE Arr(<<>>)
    IN  IF IsThrow(w1) THEN w1
        ELSE IF IsThrow(w2) THEN w2
        ELSE IF IsThrow(w3) THEN w3
        ELSE Obj([valid |-> Bool(e0 \o e1 \o e2 \o e3 = <<>>),
                  errors |-> Arr(e0 \o e1 \o e2 \o e3),
                  warnings |-> Arr(w1.v \o w2.v \o w3.v)])

(***************************************************************************)
(* Values handed to the validator: each top-level property absent, a value *)
(* that is not an array, or an array of records.                           *)
(***************************************************************************)
NotArrays == { Undefined, Null, Num(0), Str(<<"x">>) }

OutPoint == Obj([lat |-> Num(1), lon |-> Num(2)])

ValidatedAirspaces ==
    { EmptyObj,
      Obj([id |-> Str(<<"A", "1">>)]),
      Obj([id |-> Str(<<"A", "1">>), name |-> Str(<<"O", "n", "e">>), boundaries |-> Arr(<<>>)]),
      Obj([id |-> Str(<<"A", "1">>), name |-> Str(<<"O", "n", "e">>),
           boundaries |-> Arr(<<OutPoint>>)]),
      Obj([name |-> Str(<<"O", "n", "e">>), boundaries |-> Arr(<<OutPoint>>)]),
      Null }

ValidatedPositions ==
    { EmptyObj,
      Obj([callsign |-> Str(<<"B", "N">>)]),
      Obj([callsign |-> Str(<<"B", "N">>), frequency |-> Str(<<"1", "2", "5">>)]) }

ValidatedAirports ==
    { EmptyObj,
      Obj([icao |-> Str(<<"Y", "B", "B", "N">>)]),
      Obj([icao |-> Str(<<"Y", "B", "B", "N">>), coordinates |-> OutPoint]) }

ValidateInputs ==
    { ObjectOf([airspace |-> a, positions |-> p, airports |-> q]) :
        a \in NotArrays \cup { Arr(l) : l \in ListsOf(ValidatedAirspaces, MaxRecords) },
        p \in NotArrays \cup {Arr(<<>>)} \cup { Arr(<<r>>) : r \in ValidatedPositions },
        q \in NotArrays \cup {Arr(<<>>)} \cup { Arr(<<r>>) : r \in ValidatedAirports } }

InitValidate ==
    /\ op = "input"
    /\ input \in ValidateInputs
    /\ result = NoResult
    /\ ScanIdle
    /\ RendererIdle

ValidateVATGlassesData ==
    /\ op = "input"
    /\ op' = "validateVATGlassesData"
    /\ result' = validateVATGlassesData(input)
    /\ UNCHANGED <<input, scanVars, rendererVars>>

NextValidate == ValidateVATGlassesData

SpecValidate == InitValidate /\ [][NextValidate]_vars

TopLevelFields == {"airspace", "positions", "airports"}

Present(data, field) == field \in DOMAIN data.v

AbsenceError == "Data must contain at least one of: airspace, positions, or airports"

StructuralErrors ==
    { AbsenceError, "airspace must be an array", "positions must be an array",
      "airports must be an array" }

StructuralViolation(data) ==
    \/ \E f \in TopLevelFields : Present(data, f) /\ ~IsArray(data.v[f])
    \/ \A f \in TopLevelFields : ~Present(data, f)

Range(seq) == { seq[k] : k \in 1..Len(seq) }

\* C8 as stated: the validator reports an error exactly when some top-level
\* field among airspace, positions, airports is present but not an array, or
\* all three are absent; valid is true iff errors is empty; validate({}) is
\* valid:false with the absence error
C8_ErrorsIffStructural ==
    (op = "validateVATGlassesData" /\ ~IsThrow(result)) =>
        /\ (Get(result, "errors").v # <<>>) = StructuralViolation(input)
        /\ Get(result, "valid") = Bool(Get(result, "errors").v = <<>>)
        /\ input = EmptyObj =>
              /\ Get(result, "valid") = Bool(FALSE)
              /\ AbsenceError \in Range(Get(result, "errors").v)

\* the records of a top-level field, when it is an array of objects
RecordsOf(data, field) ==
    IF Present(data, field) /\ IsArray(data.v[field]) THEN data.v[field].v ELSE <<>>

WellFormedLists(data) ==
    \A f \in TopLevelFields :
        /\ Present(data, f) => IsArray(data.v[f])
        /\ \A k \in 1..Len(RecordsOf(data, f)) : RecordsOf(data, f)[k].t = "object"

Lacks(record, field) == field \notin DOMAIN record.v

MissingIn(record, fields) == Cardinality({f \in fields : Lacks(record, f)})

AirspaceGaps(r) ==
    MissingIn(r, {"id", "name"})
      + (IF Lacks(r, "boundaries") \/ r.v["boundaries"] = Arr(<<>>) THEN 1 ELSE 0)
PositionGaps(r) == MissingIn(r, {"callsign", "frequency"})
AirportGaps(r) == MissingIn(r, {"icao", "coordinates"})

GapsOf(kind, r) ==
    CASE kind = "airspace" -> AirspaceGaps(r)
      [] kind = "positions" -> PositionGaps(r)
      [] kind = "airports" -> AirportGaps(r)

RECURSIVE SumOver(_, _)
SumOver(seq, kind) ==
    IF seq = <<>> THEN 0 ELSE GapsOf(kind, Head(seq)) + SumOver(Tail(seq), kind)

\* C9: missing per-record fields only produce warnings, never errors: one
\* warning per airspace record for a missing id, one for a missing name, one
\* for missing or empty boundaries (callsign and frequency for positions,
\* ICAO code and coordinates for airports); the errors hold structural
\* messages only, and with every present top-level field an array of records
\* and at least one present the result is valid:true
C9_MissingFieldsWarnOnly ==
    (op = "validateVATGlassesData" /\ WellFormedLists(input)) =>
        /\ ~IsThrow(result)
        /\ Range(Get(result, "errors").v) \subseteq StructuralErrors
        /\ (\E f \in TopLevelFields : Present(input, f)) => Get(result, "valid") = Bool(TRUE)
        /\ Len(Get(result, "warnings").v) =
              SumOver(RecordsOf(input, "airspace"), "airspace")
            + SumOver(RecordsOf(input, "positions"), "positions")
            + SumOver(RecordsOf(input, "airports"), "airports")
        /\ \A k \in 1..Len(RecordsOf(input, "airspace")) :
              /\ Lacks(RecordsOf(input, "airspace")[k], "id")
                    = (<<"Airspace at index", Num(k - 1), "missing id">>
                          \in Range(Get(result, "warnings").v))
              /\ Lacks(RecordsOf(input, "airspace")[k], "name")
                    = (<<"Airspace at index", Num(k - 1), "missing name">>
                          \in Range(Get(result, "warnings").v))
        /\ input = Obj([airspace |-> Arr(<<EmptyObj>>)]) =>
              Get(result, "warnings").v =
                  << <<"Airspace at index", Num(0), "missing id">>,
                     <<"Airspace at index", Num(0), "missing name">>,
                     <<"Airspace", Num(0), "has no boundaries">> >>

\* C9 witness: validate({airspace:[{}]}) returned valid:true with three warnings
C9_Witness ==
    /\ op = "validateVATGlassesData"
    /\ input = Obj([airspace |-> Arr(<<EmptyObj>>)])
    /\ Get(result, "valid") = Bool(TRUE)
    /\ Len(Get(result, "warnings").v) = 3

(***************************************************************************)
(* Character runs, as the regular expressions of the parsers consume them. *)
(***************************************************************************)
\* the first position from k on whose character is not in the class
RECURSIVE RunEnd(_, _, _)
RunEnd(s, k, class) ==
    IF k <= Len(s) /\ s[k] \in class THEN RunEnd(s, k + 1, class) ELSE k

\* \d+\.?\d* at k: the position after it, or 0
DecimalEnd(s, k) ==
    LET e == RunEnd(s, k, Digits)
    IN  IF e = k THEN 0
        ELSE IF e <= Len(s) /\ s[e] = "." THEN RunEnd(s, e + 1, Digits)
        ELSE e

\* -?\d+\.?\d* at k: the position after it, or 0
SignedDecimalEnd(s, k) ==
    IF k <= Len(s) /\ s[k] = "-" THEN DecimalEnd(s, k + 1) ELSE DecimalEnd(s, k)

\* is s[k] one of the letters, in either case (a class under the i flag)
LetterAt(s, k, letters) == k >= 1 /\ k <= Len(s) /\ toUpperCase(<<s[k]>>)[1] \in letters

\* does the word occur at k, in either case
matchAtIgnoreCase(s, k, word) ==
    k >= 1 /\ k + Len(word) - 1 <= Len(s)
        /\ toUpperCase(SubSeq(s, k, k + Len(word) - 1)) = toUpperCase(word)

\* the least member of a set of positions, or 0
Least(S) == IF S = {} THEN 0 ELSE CHOOSE k \in S : \A j \in S : k <= j

\* the least k in from..to satisfying the test, or 0
LeastFrom(from, to, Test(_)) == Least({ k \in from..to : Test(k) })

\* what an expression tried at a position gives when it does not match there
NoMatch == [end |-> 0, groups |-> <<>>]

\* the leftmost match: of the attempts at each position in turn, the first that
\* is not none
FirstOf(attempts, none) ==
    IF \A k \in DOMAIN attempts : attempts[k] = none THEN none
    ELSE attempts[Least({ k \in DOMAIN attempts : attempts[k] # none })]

\* degrees + minutes / 60 + seconds / 3600
Sexagesimal(degrees, minutes, seconds) ==
    Plus(degrees, Plus(Over(minutes, 60), Over(seconds, 3600)))

\* if (direction === 'S' || direction === 'W') decimal *= -1
Southwest(decimal, direction) ==
    IF direction \in {<<"S">>, <<"W">>} THEN Times(decimal, Num(-1)) ELSE decimal

(***************************************************************************)
(* parseCoordinate (README.md)                                             *)
(***************************************************************************)
DegreeSeparators == {"°"} \cup WhiteSpace
MinuteSeparators == {"'"} \cup WhiteSpace
SecondSeparators == {"\""} \cup WhiteSpace
Compass == {"N", "S", "E", "W"}

\* /(\d+)[°\s]+(\d+)['\s]+(\d+\.?\d*)["\s]*([NSEW])/i tried at position k: the
\* four groups, or <<>>.  Every repetition is followed by a character outside
\* its class, so the greedy attempt is the only one that can succeed.
dmsMatchAt(s, k) ==
    LET d1 == RunEnd(s, k, Digits)
        s1 == RunEnd(s, d1, DegreeSeparators)
        d2 == RunEnd(s, s1, Digits)
        s2 == RunEnd(s, d2, MinuteSeparators)
        d3 == DecimalEnd(s, s2)
        s3 == RunEnd(s, d3, SecondSeparators)
    IN  IF d1 > k /\ s1 > d1 /\ d2 > s1 /\ s2 > d2 /\ d3 # 0 /\ LetterAt(s, s3, Compass)
        THEN <<SubSeq(s, k, d1 - 1), SubSeq(s, s1, d2 - 1), SubSeq(s, s2, d3 - 1),
               <<s[s3]>>>>
        ELSE <<>>

\* str.match of that expression: the groups of the leftmost match, or <<>>
dmsMatch(s) == FirstOf([k \in 1..Len(s) |-> dmsMatchAt(s, k)], <<>>)

\* the branch of parseCoordinate on the DMS match: its value, 0 without a match
dmsValue(groups) ==
    IF groups = <<>> THEN Num(0)
    ELSE Southwest(Sexagesimal(parseInt(groups[1]), parseInt(groups[2]),
                               parseFloat(groups[3])),
                   toUpperCase(groups[4]))

\* if (!isNaN(decimal)) return decimal, before the DMS format is tried
decimalOrDms(str, decimal) == IF ~decimal.nan THEN decimal ELSE dmsValue(dmsMatch(str))

\* parseCoordinate after const str = coord.toString().trim()
parseCoordinateText(str) == decimalOrDms(str, parseFloat(str))

parseCoordinate(coord) ==
    IF coord.t = "number" THEN coord
    ELSE IF coord.t \in {"null", "undefined"} THEN TypeErrorRead
    ELSE parseCoordinateText(trim(StringOf(coord)))

(***************************************************************************)
(* The CSV parser (README.md)                                              *)
(***************************************************************************)
\* the loop of parseCSVLine from character k on
RECURSIVE parseCSVLineFrom(_, _, _, _, _)
parseCSVLineFrom(line, k, cells, current, inQuotes) ==
    IF k > Len(line) THEN Append(cells, current)
    ELSE IF line[k] = "\"" THEN parseCSVLineFrom(line, k + 1, cells, current, ~inQuotes)
    ELSE IF line[k] = "," /\ ~inQuotes
         THEN parseCSVLineFrom(line, k + 1, Append(cells, current), <<>>, inQuotes)
    ELSE parseCSVLineFrom(line, k + 1, cells, Append(current, line[k]), inQuotes)

parseCSVLine(line) == parseCSVLineFrom(line, 1, <<>>, <<>>, FALSE)

\* the body of the forEach of mapColumnNames: the first branch of the else-if
\* chain that applies assigns the header to its role
mapHeader(map, header) ==
    LET lower == toLowerCase(header)
    IN  IF includes(lower, <<"a", "i", "r", "s", "p", "a", "c", "e">>) /\ includes(lower, <<"i", "d">>) THEN [map EXCEPT !.id = Str(header)]
        ELSE IF includes(lower, <<"a", "i", "r", "s", "p", "a", "c", "e">>) /\ includes(lower, <<"n", "a", "m", "e">>)
             THEN [map EXCEPT !.name = Str(header)]
        ELSE IF lower = <<"n", "a", "m", "e">> /\ ~Truthy(map.name) THEN [map EXCEPT !.name = Str(header)]
        ELSE IF includes(lower, <<"t", "y", "p", "e">>) THEN [map EXCEPT !.type = Str(header)]
        ELSE IF includes(lower, <<"l", "a", "t">>) THEN [map EXCEPT !.latitude = Str(header)]
        ELSE IF includes(lower, <<"l", "o", "n">>) THEN [map EXCEPT !.longitude = Str(header)]
        ELSE IF includes(lower, <<"u", "p", "p", "e", "r">>) THEN [map EXCEPT !.upperLimit = Str(header)]
        ELSE IF includes(lower, <<"l", "o", "w", "e", "r">>) THEN [map EXCEPT !.lowerLimit = Str(header)]
        ELSE IF includes(lower, <<"c", "o", "n", "d", "i", "t", "i", "o", "n", "a", "l">>) THEN [map EXCEPT !.conditional = Str(header)]
        ELSE IF includes(lower, <<"s", "e", "q", "u", "e", "n", "c", "e">>) THEN [map EXCEPT !.sequence = Str(header)]
        ELSE map

RECURSIVE mapColumnNamesFrom(_, _)
mapColumnNamesFrom(map, headers) ==
    IF headers = <<>> THEN map
    ELSE mapColumnNamesFrom(mapHeader(map, Head(headers)), Tail(headers))

mapColumnNames(headers) ==
    mapColumnNamesFrom([id |-> Null, name |-> Null, type |-> Null, latitude |-> Null,
                        longitude |-> Null, upperLimit |-> Null, lowerLimit |-> Null,
                        conditional |-> Null, sequence |-> Null], headers)

\* the row object of parseCSVFormat: airspace[header] = values[index].trim()
\* for each header in turn, a later column of the same header overwriting
RowObject(headers, values) ==
    [h \in { headers[k] : k \in 1..Len(headers) } |->
        trim(values[CHOOSE k \in 1..Len(headers) :
                        headers[k] = h /\ \A j \in (k + 1)..Len(headers) : headers[j] # h])]

\* airspace[key]: the key is converted to a string, null to "null"
Cell(airspace, key) ==
    LET k == IF key = Null THEN <<"n", "u", "l", "l">> ELSE key.v
    IN  IF k \in DOMAIN airspace THEN Str(airspace[k]) ELSE Undefined

\* the boundaries of the record of a row: one when the row has a latitude and a
\* longitude, with parseInt(sequence) || 0
rowBoundaries(latitude, longitude, sequence) ==
    IF Truthy(latitude) /\ Truthy(longitude)
    THEN <<Obj([latitude |-> parseCoordinate(latitude),
                longitude |-> parseCoordinate(longitude),
                sequence |-> OrElse(parseInt(StringOf(sequence)), Num(0))])>>
    ELSE <<>>

\* const structuredAirspace = {...}, airspace being the row object
rowRecord(airspace, columnMap, index) ==
    Obj([id |-> OrElse(Cell(airspace, columnMap.id),
                       Str(<<"A", "I", "R", "S", "P", "A", "C", "E", "_">> \o IntToChars(index))),
         name |-> OrElse(Cell(airspace, columnMap.name), Str(<<"U", "n", "k", "n", "o", "w", "n">>)),
         type |-> OrElse(Cell(airspace, columnMap.type), Str(<<"U", "N", "K", "N", "O", "W", "N">>)),
         boundaries |-> Arr(rowBoundaries(Cell(airspace, columnMap.latitude),
                                          Cell(airspace, columnMap.longitude),
                                          Cell(airspace, columnMap.sequence))),
         upperLimit |-> OrElse(Cell(airspace, columnMap.upperLimit), Str(UNL)),
         lowerLimit |-> OrElse(Cell(airspace, columnMap.lowerLimit), Str(GND)),
         conditional |-> OrElse(Cell(airspace, columnMap.conditional), Bool(FALSE))])

\* the record parseCSVFormat builds of the data row at index (of lines)
structuredAirspace(headers, columnMap, values, index) ==
    rowRecord(RowObject(headers, values), columnMap, index)

\* a stable sort of <<key, item>> pairs by ascending key (Array.prototype.sort
\* is stable): each pair is inserted after the pairs whose key is not greater
RECURSIVE InsertSorted(_, _)
InsertSorted(sorted, pair) ==
    IF sorted = <<>> THEN <<pair>>
    ELSE IF sorted[Len(sorted)][1] <= pair[1] THEN Append(sorted, pair)
    ELSE Append(InsertSorted(SubSeq(sorted, 1, Len(sorted) - 1), pair), sorted[Len(sorted)])

RECURSIVE SortPairs(_)
SortPairs(pairs) ==
    IF pairs = <<>> THEN <<>>
    ELSE InsertSorted(SortPairs(SubSeq(pairs, 1, Len(pairs) - 1)), pairs[Len(pairs)])

\* the boundaries left in the order they were pushed
sortBySequence_Unsorted(boundaries) == boundaries

\* boundaries.sort((a, b) => (a.sequence || 0) - (b.sequence || 0))
sortBySequence(boundaries) ==
    LET pairs == [k \in 1..Len(boundaries) |->
                    <<OrElse(Get(boundaries[k], "sequence"), Num(0)).v, boundaries[k]>>]
    IN  [k \in 1..Len(boundaries) |-> SortPairs(pairs)[k][2]]

\* a property key that is an array index: "0", or digits not starting with 0
IsArrayIndex(key) ==
    /\ key # <<>>
    /\ Len(key) <= 9
    /\ \A k \in 1..Len(key) : key[k] \in Digits
    /\ (key[1] = "0" => Len(key) = 1)

\* the keys of a sequence of values, each once, in order of first occurrence
RECURSIVE FirstOccurrences(_)
FirstOccurrences(keys) ==
    IF keys = <<>> THEN <<>>
    ELSE LET front == FirstOccurrences(SubSeq(keys, 1, Len(keys) - 1))
         IN  IF \E k \in 1..Len(front) : front[k] = keys[Len(keys)] THEN front
             ELSE Append(front, keys[Len(keys)])

\* the order in which Object.values enumerates the keys of an object they were
\* added to in the given order: array indices ascending, then the others
OwnKeys(inserted) ==
    LET indices == SelectSeq(inserted, IsArrayIndex)
        others == SelectSeq(inserted, LAMBDA key : ~IsArrayIndex(key))
        sorted == SortPairs([k \in 1..Len(indices) |-> <<DigitsToInt(indices[k]), indices[k]>>])
    IN  [k \in 1..Len(indices) |-> sorted[k][2]] \o others

\* the boundaries of all the records in turn
RECURSIVE AllBoundaries(_)
AllBoundaries(records) ==
    IF records = <<>> THEN <<>>
    ELSE Get(Head(records), "boundaries").v \o AllBoundaries(Tail(records))

\* mergeAirspaceBoundaries: grouped[id] starts as a copy of the first record of
\* the id, collects the boundaries of every record of the id, and is sorted.
\* The ids are data: none names a member of Object.prototype.
mergeAirspaceBoundaries(records) ==
    LET keyOf(r) == StringOf(Get(r, "id"))
        keys == OwnKeys(FirstOccurrences([k \in 1..Len(records) |-> keyOf(records[k])]))
        group(key) ==
            LET members == SelectSeq(records, LAMBDA r : keyOf(r) = key)
            IN  With(members[1], "boundaries", Arr(sortBySequence(AllBoundaries(members))))
    IN  [k \in 1..Len(keys) |-> group(keys[k])]

\* only a row with fewer values than headers is skipped
csvRow_LongerKept(headers, columnMap, values, index) ==
    IF Len(values) < Len(headers) THEN <<>>
    ELSE <<structuredAirspace(headers, columnMap, values, index)>>

\* the records of the row at index, whose values are given: a row whose number
\* of values differs from the number of headers is skipped
csvRow(headers, columnMap, values, index) ==
    IF Len(values) # Len(headers) THEN <<>>
    ELSE <<structuredAirspace(headers, columnMap, values, index)>>

\* the data rows of parseCSVFormat from the line at index on
RECURSIVE csvRows(_, _, _, _)
csvRows(lns, headers, columnMap, index) ==
    IF index + 1 > Len(lns) THEN <<>>
    ELSE csvRow(headers, columnMap, parseCSVLine(lns[index + 1]), index)
            \o csvRows(lns, headers, columnMap, index + 1)

\* content.split('\n').filter(line => line.trim())
nonBlankLines(content) == SelectSeq(split(content, "\n"), LAMBDA line : trim(line) # <<>>)

\* lines[0].split(',').map(h => h.trim().toLowerCase())
csvHeaders(line) ==
    [k \in 1..Len(split(line, ",")) |-> toLowerCase(trim(split(line, ",")[k]))]

\* parseCSVFormat once the headers are known
csvAirspaces(lns, headers) ==
    Arr(mergeAirspaceBoundaries(csvRows(lns, headers, mapColumnNames(headers), 1)))

\* parseCSVFormat after its check of the number of lines
parseCSVLines(lns, parsedData) ==
    With(parsedData, "airspaces", csvAirspaces(lns, csvHeaders(lns[1])))

\* the CSV parser without its check of the number of lines
parseCSVFormat_NoRowCheck(content, parsedData) ==
    IF nonBlankLines(content) = <<>> THEN TypeErrorRead
    ELSE parseCSVLines(nonBlankLines(content), parsedData)

parseCSVFormat(content, parsedData) ==
    IF Len(nonBlankLines(content)) < 2
    THEN Throw("CSV file must have headers and at least one data row")
    ELSE parseCSVLines(nonBlankLines(content), parsedData)

(***************************************************************************)
(* The structured-text and generic parsers (README.md)                     *)
(***************************************************************************)
TitleChars == UpperLetters \cup Digits \cup {"-"}
LimitSeparators == {":"} \cup WhiteSpace
GenericSeparators == {"°", ","} \cup WhiteSpace

\* trimmed.match(/^[A-Z0-9-]+\s+[A-Z]/)
startsAirspace(trimmed) ==
    LET e == RunEnd(trimmed, 1, TitleChars)
        w == RunEnd(trimmed, e, WhiteSpace)
    IN  e > 1 /\ w > e /\ w <= Len(trimmed) /\ trimmed[w] \in UpperLetters

\* /^([A-Z0-9-]+)/
extractAirspaceId(line) ==
    IF RunEnd(line, 1, TitleChars) > 1
    THEN Str(SubSeq(line, 1, RunEnd(line, 1, TitleChars) - 1))
    ELSE Str(<<"U", "N", "K", "N", "O", "W", "N">>)

\* (\s+UPPER|\s+LOWER|$) at k
nameEndsAt(line, k) ==
    \/ k = Len(line) + 1
    \/ LET w == RunEnd(line, k, WhiteSpace)
       IN  w > k /\ (matchAtIgnoreCase(line, w, <<"U", "P", "P", "E", "R">>) \/ matchAtIgnoreCase(line, w, <<"L", "O", "W", "E", "R">>))

\* /^[A-Z0-9-]+\s+(.+?)(\s+UPPER|\s+LOWER|$)/i: the lazy group ends at the
\* first position where the rest matches (a trimmed line of the text holds no
\* line terminator, so "." matches each of its characters)
extractAirspaceName(line) ==
    LET e == RunEnd(line, 1, TitleChars \cup LowerLetters)
        w == RunEnd(line, e, WhiteSpace)
    IN  IF e > 1 /\ w > e /\ w <= Len(line)
        THEN Str(trim(SubSeq(line, w,
                    LeastFrom(w + 1, Len(line) + 1, LAMBDA k : nameEndsAt(line, k)) - 1)))
        ELSE Str(<<"U", "n", "k", "n", "o", "w", "n", " ", "A", "i", "r", "s", "p", "a", "c", "e">>)

\* keyword[:\s]+([^\s]+) tried at k, under the i flag: group 1, or <<>>.  When
\* the separators run to the end of the text the expression gives back a ":"
\* for the group to match
limitMatchAt(s, k, keyword) ==
    LET a == k + Len(keyword)
        q == RunEnd(s, a, LimitSeparators)
        colons == { j \in (a + 1)..(q - 1) : s[j] = ":" }
        from == IF q <= Len(s) THEN q
                ELSE IF colons # {} THEN CHOOSE j \in colons : \A c \in colons : c <= j
                ELSE 0
    IN  IF matchAtIgnoreCase(s, k, keyword) /\ q > a /\ from # 0
        THEN SubSeq(s, from, RunEnd(s, from, { s[j] : j \in 1..Len(s) } \ WhiteSpace) - 1)
        ELSE <<>>

limitMatch(s, keyword) == FirstOf([k \in 1..Len(s) |-> limitMatchAt(s, k, keyword)], <<>>)

\* /(-?\d+\.?\d*)[°\s]+([NS])\s+(-?\d+\.?\d*)[°\s]+([EW])/i tried at k
coordinatesMatchAt(s, k) ==
    LET n1 == SignedDecimalEnd(s, k)
        s1 == RunEnd(s, n1, DegreeSeparators)
        w == RunEnd(s, s1 + 1, WhiteSpace)
        n2 == SignedDecimalEnd(s, w)
        s2 == RunEnd(s, n2, DegreeSeparators)
    IN  IF /\ n1 # 0 /\ s1 > n1 /\ LetterAt(s, s1, {"N", "S"})
           /\ w > s1 + 1 /\ n2 # 0 /\ s2 > n2 /\ LetterAt(s, s2, {"E", "W"})
        THEN <<SubSeq(s, k, n1 - 1), <<s[s1]>>, SubSeq(s, w, n2 - 1), <<s[s2]>>>>
        ELSE <<>>

\* the coordinate pair of the groups of a match, null without a match
coordinatesOf(match) ==
    IF match = <<>> THEN Null
    ELSE Obj([latitude |-> parseCoordinate(Str(match[1] \o match[2])),
              longitude |-> parseCoordinate(Str(match[3] \o match[4]))])

extractCoordinates(line) ==
    coordinatesOf(FirstOf([k \in 1..Len(line) |-> coordinatesMatchAt(line, k)], <<>>))

\* currentAirspace = {...} at the start of a new airspace
startedAirspace(trimmed) ==
    Obj([id |-> extractAirspaceId(trimmed),
         name |-> extractAirspaceName(trimmed),
         boundaries |-> Arr(<<>>),
         upperLimit |-> Str(UNL),
         lowerLimit |-> Str(GND)])

\* if (upperMatch) currentAirspace.upperLimit = upperMatch[1], and the same of
\* the lower limit
withLimit(current, name, match) ==
    IF match # <<>> THEN With(current, name, Str(match)) ELSE current

\* if (coordMatch) currentAirspace.boundaries.push(coordMatch)
withCoordinates(current, coordMatch) ==
    IF coordMatch.t # "null"
    THEN With(current, "boundaries", Arr(Append(current.v.boundaries.v, coordMatch)))
    ELSE current

\* the statements under if (currentAirspace)
structuredFields(trimmed, current) ==
    IF current.t = "null" THEN current
    ELSE withCoordinates(
            withLimit(withLimit(current, "upperLimit",
                                limitMatch(trimmed, <<"U", "P", "P", "E", "R">>)),
                      "lowerLimit", limitMatch(trimmed, <<"L", "O", "W", "E", "R">>)),
            extractCoordinates(trimmed))

\* the body of the loop of parseStructuredText for one line that is not blank:
\* the record in progress after the line
structuredLine(trimmed, current) ==
    structuredFields(trimmed, IF startsAirspace(trimmed) THEN startedAirspace(trimmed)
                              ELSE current)

\* the records the loop pushes from a line that is not blank on
RECURSIVE structuredScan(_, _)
structuredFrom(trimmed, rest, current) ==
    (IF startsAirspace(trimmed) /\ current.t # "null" THEN <<current>> ELSE <<>>)
        \o structuredScan(rest, structuredLine(trimmed, current))

\* the loop of parseStructuredText over the remaining lines: the records pushed
structuredScan(lns, current) ==
    IF lns = <<>> THEN IF current.t # "null" THEN <<current>> ELSE <<>>
    ELSE IF trim(Head(lns)) = <<>> THEN structuredScan(Tail(lns), current)
    ELSE structuredFrom(trim(Head(lns)), Tail(lns), current)

parseStructuredText(content, parsedData) ==
    With(parsedData, "airspaces",
         Arr(parsedData.v.airspaces.v \o structuredScan(split(content, "\n"), Null)))

\* /(-?\d+\.?\d*)[°\s,]+([NSEW]?)\s*(-?\d+\.?\d*)[°\s,]+([NSEW]?)/gi tried at k:
\* the position after the match and its four groups, or end = 0
genericMatchAt(s, k) ==
    LET n1 == SignedDecimalEnd(s, k)
        s1 == RunEnd(s, n1, GenericSeparators)
        l1 == IF LetterAt(s, s1, Compass) THEN s1 + 1 ELSE s1
        w == RunEnd(s, l1, WhiteSpace)
        n2 == SignedDecimalEnd(s, w)
        s2 == RunEnd(s, n2, GenericSeparators)
        l2 == IF LetterAt(s, s2, Compass) THEN s2 + 1 ELSE s2
    IN  IF n1 # 0 /\ s1 > n1 /\ n2 # 0 /\ s2 > n2
        THEN [end |-> l2,
              groups |-> <<SubSeq(s, k, n1 - 1), SubSeq(s, s1, l1 - 1),
                           SubSeq(s, w, n2 - 1), SubSeq(s, s2, l2 - 1)>>]
        ELSE NoMatch

\* content.matchAll of that expression from position k on: the boundary of
\* each match in turn
RECURSIVE genericBoundaries(_, _)
boundariesFrom(s, match) ==
    IF match.end = 0 THEN <<>>
    ELSE <<Obj([latitude |-> parseCoordinate(Str(match.groups[1] \o match.groups[2])),
                longitude |-> parseCoordinate(Str(match.groups[3] \o match.groups[4]))])>>
            \o genericBoundaries(s, match.end)

genericBoundaries(s, k) ==
    boundariesFrom(s, FirstOf([j \in k..Len(s) |-> genericMatchAt(s, j)], NoMatch))

\* parseGenericFormat once the matches are collected
extractedAirspace(boundaries, parsedData) ==
    IF Len(boundaries) > 0
    THEN With(parsedData, "airspaces",
              Arr(Append(parsedData.v.airspaces.v,
                    Obj([id |-> Str(<<"E", "X", "T", "R", "A", "C", "T", "E", "D", "_", "A", "I", "R", "S", "P", "A", "C", "E">>),
                         name |-> Str(<<"E", "x", "t", "r", "a", "c", "t", "e", "d", " ", "f", "r", "o", "m", " ", "D", "A", "H">>),
                         boundaries |-> Arr(boundaries),
                         upperLimit |-> Str(UNL),
                         lowerLimit |-> Str(GND)]))))
    ELSE parsedData

\* only the matches that read as the first one does are kept
parseGenericFormat_FirstMatch(content, parsedData) ==
    extractedAirspace(SelectSeq(genericBoundaries(content, 1),
                                LAMBDA b : b = genericBoundaries(content, 1)[1]),
                      parsedData)

parseGenericFormat(content, parsedData) ==
    extractedAirspace(genericBoundaries(content, 1), parsedData)

(***************************************************************************)
(* parseDAHFile (README.md): detection, dispatch, and the wrapping of any  *)
(* error.  iso is the reading of the clock.                                *)
(***************************************************************************)
FailedToParse(cause) == Throw(<<"Failed to parse DAH file: ", cause.v>>)

\* the switch on the detected format
parseAs(format, fileContent, parsedData) ==
    CASE format = "csv" -> parseCSVFormat(fileContent, parsedData)
      [] format = "structured_text" -> parseStructuredText(fileContent, parsedData)
      [] format = "json" -> parseJSONFormat(fileContent, parsedData)
      [] OTHER -> parseGenericFormat(fileContent, parsedData)

\* catch (error) { throw new Error(`Failed to parse DAH file: ${error.message}`) }
rethrown(parsed) == IF IsThrow(parsed) THEN FailedToParse(parsed) ELSE parsed

parseDAHFile(fileContent, iso) ==
    rethrown(parseAs(detectFileFormat(fileContent), fileContent, NewParsedData(iso)))

(***************************************************************************)
(* The PDF-text parser (unnamed/part_000): the expressions of one line.    *)
(***************************************************************************)
AllIn(s, from, to, class) ==
    from >= 1 /\ to <= Len(s) /\ \A j \in from..to : s[j] \in class

CharAt(s, k, c) == k >= 1 /\ k <= Len(s) /\ s[k] = c

\* ([A-Z]?\d+) covering the whole of r
IsSuffix(r) ==
    /\ r # <<>>
    /\ \/ AllIn(r, 1, Len(r), Digits)
       \/ r[1] \in UpperLetters /\ Len(r) >= 2 /\ AllIn(r, 2, Len(r), Digits)

\* (?:\s+CTA|CTR|TMA|CLASS)? at p: the positions after it, the alternatives in
\* their order and the empty match last
titleKeywordEnds(s, p) ==
    LET w == RunEnd(s, p, WhiteSpace)
    IN  (IF w > p /\ matchAt(s, w, <<"C", "T", "A">>) THEN <<w + 3>> ELSE <<>>)
            \o (IF matchAt(s, p, <<"C", "T", "R">>) THEN <<p + 3>> ELSE <<>>)
            \o (IF matchAt(s, p, <<"T", "M", "A">>) THEN <<p + 3>> ELSE <<>>)
            \o (IF matchAt(s, p, <<"C", "L", "A", "S", "S">>) THEN <<p + 5>> ELSE <<>>)
            \o <<p>>

\* \s*([A-Z]?\d+)?$ at q
titleTailAt(s, q) ==
    LET r == SubSeq(s, RunEnd(s, q, WhiteSpace), Len(s)) IN r = <<>> \/ IsSuffix(r)

\* group 3 when the n-th of the alternatives is the first after which the tail
\* matches, n = 0 when there is none
titleSuffix(s, ends, n) ==
    IF n = 0 THEN [ok |-> FALSE, suffix |-> <<>>]
    ELSE [ok |-> TRUE, suffix |-> SubSeq(s, RunEnd(s, ends[n], WhiteSpace), Len(s))]

titleRestFrom(s, ends) ==
    titleSuffix(s, ends, LeastFrom(1, Len(ends), LAMBDA k : titleTailAt(s, ends[k])))

\* (?:\s+CTA|CTR|TMA|CLASS)?\s*([A-Z]?\d+)?$ at p: does it match, and group 3
\* of the first alternative that does
titleRestAt(s, p) == titleRestFrom(s, titleKeywordEnds(s, p))

\* the position of the "/" after group 1, ([A-Z]{4}(?:-[A-Z]{4})?(?:\/[A-Z]{4})?),
\* or 0.  Each optional part is taken when it is there; the second is given
\* back when nothing but the end of the line follows it
titleSlash(s) ==
    IF ~AllIn(s, 1, 4, UpperLetters) THEN 0
    ELSE LET b == IF CharAt(s, 5, "-") /\ AllIn(s, 6, 9, UpperLetters) THEN 10 ELSE 5
             c == IF CharAt(s, b, "/") /\ AllIn(s, b + 1, b + 4, UpperLetters)
                  THEN b + 5 ELSE b
         IN  IF CharAt(s, c, "/") /\ c < Len(s) THEN c
             ELSE IF CharAt(s, b, "/") /\ b < Len(s) THEN b
             ELSE 0

\* the groups when group 1 ends before slash and group 2 before p
titleGroups(line, slash, p) ==
    [ok |-> TRUE,
     code |-> SubSeq(line, 1, slash - 1),
     name |-> SubSeq(line, slash + 1, p - 1),
     suffix |-> titleRestAt(line, p).suffix]

titleAfter(line, slash) ==
    IF slash = 0 THEN [ok |-> FALSE, code |-> <<>>, name |-> <<>>, suffix |-> <<>>]
    ELSE titleGroups(line, slash,
            LeastFrom(slash + 2, Len(line) + 1, LAMBDA k : titleRestAt(line, k).ok))

\* line.match(/^([A-Z]{4}(?:-[A-Z]{4})?(?:\/[A-Z]{4})?)\/(.+?)(?:\s+CTA|CTR|TMA|CLASS)?\s*([A-Z]?\d+)?$/):
\* the lazy group 2 ends at the first position where the rest matches
titleMatch(line) == titleAfter(line, titleSlash(line))

\* s.split(/[-\/]/)
RECURSIVE splitCode(_)
splitCode(s) ==
    LET k == LeastFrom(1, Len(s), LAMBDA j : s[j] \in {"-", "/"})
    IN  IF k = 0 THEN <<s>>
        ELSE <<SubSeq(s, 1, k - 1)>> \o splitCode(SubSeq(s, k + 1, Len(s)))

\* the record parseAirspaceText starts at a title line
newAirspace(title) ==
    LET name == trim(title.name)
        locations == SelectSeq(splitCode(title.code), LAMBDA l : Len(l) = 4)
    IN  Obj([id |-> Str(trim(title.code \o <<"/">> \o name \o <<" ">> \o title.suffix)),
             name |-> Str(trim(name \o <<" ">> \o title.suffix)),
             locations |-> Arr([k \in 1..Len(locations) |-> Str(locations[k])]),
             boundaries |-> Arr(<<>>),
             upperLimit |-> Str(UNL),
             lowerLimit |-> Str(GND),
             controllingAuthority |-> Null,
             frequencies |-> Arr(<<>>),
             hoursOfOperation |-> Null])

\* a heading at the start of a line, under the i flag: the words separated by
\* \s+, the last one ending in ":".  The position after the heading and the
\* blanks that follow it (what replace(/^...:\s*/i, '') removes), or 0
RECURSIVE headingEnd(_, _, _)
headingEnd(line, k, words) ==
    IF ~matchAtIgnoreCase(line, k, Head(words)) THEN 0
    ELSE LET e == k + Len(Head(words))
             w == RunEnd(line, e, WhiteSpace)
         IN  IF Len(words) = 1 THEN w
             ELSE IF w = e THEN 0
             ELSE headingEnd(line, w, Tail(words))

lateralLimits(line) == headingEnd(line, 1, <<<<"L", "A", "T", "E", "R", "A", "L">>, <<"L", "I", "M", "I", "T", "S", ":">>>>)
verticalLimits(line) == headingEnd(line, 1, <<<<"V", "E", "R", "T", "I", "C", "A", "L">>, <<"L", "I", "M", "I", "T", "S", ":">>>>)
controllingAuthority(line) == headingEnd(line, 1, <<<<"C", "O", "N", "T", "R", "O", "L", "L", "I", "N", "G">>, <<"A", "U", "T", "H", "O", "R", "I", "T", "Y", ":">>>>)

\* /^HOURS?\s+OF\s+ACTIVATION:/i
hoursOfActivation(line) ==
    IF headingEnd(line, 1, <<<<"H", "O", "U", "R", "S">>, <<"O", "F">>, <<"A", "C", "T", "I", "V", "A", "T", "I", "O", "N", ":">>>>) # 0
    THEN headingEnd(line, 1, <<<<"H", "O", "U", "R", "S">>, <<"O", "F">>, <<"A", "C", "T", "I", "V", "A", "T", "I", "O", "N", ":">>>>)
    ELSE headingEnd(line, 1, <<<<"H", "O", "U", "R">>, <<"O", "F">>, <<"A", "C", "T", "I", "V", "A", "T", "I", "O", "N", ":">>>>)

\* what follows the heading, trimmed
afterHeading(line, end) == trim(SubSeq(line, end, Len(line)))

(***************************************************************************)
(* Coordinates and vertical limits of the PDF-text parser.                 *)
(***************************************************************************)
dmsToDecimal(degrees, minutes, seconds, direction) ==
    Southwest(Sexagesimal(degrees, minutes, seconds), direction)

parseDMSCoordinate(dmsStr, direction) ==
    LET str == SelectSeq(dmsStr, LAMBDA c : c \in Digits)
    IN  IF Len(str) = 7
        THEN dmsToDecimal(parseInt(SubSeq(str, 1, 2)), parseInt(SubSeq(str, 3, 4)),
                          Over(parseInt(SubSeq(str, 5, 7)), 10), direction)
        ELSE IF Len(str) = 8
        THEN dmsToDecimal(parseInt(SubSeq(str, 1, 3)), parseInt(SubSeq(str, 4, 5)),
                          Over(parseInt(SubSeq(str, 6, 8)), 10), direction)
        ELSE Null

\* /(\d{7})([NS])?\s+(\d{8})([EW])/g tried at k
pattern1At(s, k) ==
    LET l == IF k + 7 <= Len(s) /\ s[k + 7] \in {"N", "S"} THEN k + 8 ELSE k + 7
        w == RunEnd(s, l, WhiteSpace)
    IN  IF /\ AllIn(s, k, k + 6, Digits) /\ w > l /\ AllIn(s, w, w + 7, Digits)
           /\ w + 8 <= Len(s) /\ s[w + 8] \in {"E", "W"}
        THEN [end |-> w + 9,
              groups |-> <<SubSeq(s, k, k + 6), SubSeq(s, k + 7, l - 1),
                           SubSeq(s, w, w + 7), <<s[w + 8]>>>>]
        ELSE NoMatch

\* /(\d+)°(\d+)'(\d+)"?([NS])\s+(\d+)°(\d+)'(\d+)"?([EW])/g tried at k
pattern2At(s, k) ==
    LET d1 == RunEnd(s, k, Digits)
        d2 == RunEnd(s, d1 + 1, Digits)
        d3 == RunEnd(s, d2 + 1, Digits)
        q == IF CharAt(s, d3, "\"") THEN d3 + 1 ELSE d3
        w == RunEnd(s, q + 1, WhiteSpace)
        e1 == RunEnd(s, w, Digits)
        e2 == RunEnd(s, e1 + 1, Digits)
        e3 == RunEnd(s, e2 + 1, Digits)
        r == IF CharAt(s, e3, "\"") THEN e3 + 1 ELSE e3
    IN  IF /\ d1 > k /\ CharAt(s, d1, "°") /\ d2 > d1 + 1 /\ CharAt(s, d2, "'")
           /\ d3 > d2 + 1 /\ q <= Len(s) /\ s[q] \in {"N", "S"} /\ w > q + 1
           /\ e1 > w /\ CharAt(s, e1, "°") /\ e2 > e1 + 1 /\ CharAt(s, e2, "'")
           /\ e3 > e2 + 1 /\ r <= Len(s) /\ s[r] \in {"E", "W"}
        THEN [end |-> r + 1,
              groups |-> <<SubSeq(s, k, d1 - 1), SubSeq(s, d1 + 1, d2 - 1),
                           SubSeq(s, d2 + 1, d3 - 1), <<s[q]>>,
                           SubSeq(s, w, e1 - 1), SubSeq(s, e1 + 1, e2 - 1),
                           SubSeq(s, e2 + 1, e3 - 1), <<s[r]>>>>]
        ELSE NoMatch

\* /(\d{7})/g tried at k
pattern3At(s, k) ==
    IF AllIn(s, k, k + 6, Digits)
    THEN [end |-> k + 7, groups |-> <<SubSeq(s, k, k + 6)>>]
    ELSE NoMatch

patternAt(n, s, k) ==
    CASE n = 1 -> pattern1At(s, k) [] n = 2 -> pattern2At(s, k) [] n = 3 -> pattern3At(s, k)

\* [...line.matchAll(pattern n)] from position k on: the groups of each match
RECURSIVE matchAll(_, _, _)
matchesFrom(n, s, match) ==
    IF match.end = 0 THEN <<>> ELSE <<match.groups>> \o matchAll(n, s, match.end)

matchAll(n, s, k) ==
    matchesFrom(n, s, FirstOf([j \in k..Len(s) |-> patternAt(n, s, j)], NoMatch))

boundary(lat, lon) == Obj([latitude |-> lat, longitude |-> lon])

\* the pairs coords[i], coords[i + 1] for i = 0, 2, ... while i < length - 1
RECURSIVE pairsOf(_)
pairsOf(coords) ==
    IF Len(coords) < 2 THEN <<>>
    ELSE <<boundary(parseDMSCoordinate(coords[1][1], <<"S">>),
                    parseDMSCoordinate(coords[2][1], <<"E">>))>>
            \o pairsOf(SubSeq(coords, 3, Len(coords)))

\* lat !== null && lon !== null
bothDecoded(b) == b.v.latitude.t # "null" /\ b.v.longitude.t # "null"

\* what the matches of the first pattern push
pushed1(matches) ==
    SelectSeq([k \in 1..Len(matches) |->
                    boundary(parseDMSCoordinate(matches[k][1],
                                IF matches[k][2] = <<>> THEN <<"S">> ELSE matches[k][2]),
                             parseDMSCoordinate(matches[k][3], matches[k][4]))],
              bothDecoded)

\* what the matches of the second pattern push
pushed2(matches) ==
    [k \in 1..Len(matches) |->
        boundary(dmsToDecimal(parseInt(matches[k][1]), parseInt(matches[k][2]),
                              parseInt(matches[k][3]), matches[k][4]),
                 dmsToDecimal(parseInt(matches[k][5]), parseInt(matches[k][6]),
                              parseInt(matches[k][7]), matches[k][8]))]

\* what the matches of the third pattern push
pushed3(coords) == IF Len(coords) >= 2 THEN SelectSeq(pairsOf(coords), bothDecoded) ELSE <<>>

\* the patterns in turn: the first with a match decides
pushedOf(m1, m2, m3) ==
    IF Len(m1) > 0 THEN pushed1(m1)
    ELSE IF Len(m2) > 0 THEN pushed2(m2)
    ELSE pushed3(m3)

\* the boundaries extractCoordinatesFromLine pushes for a line
coordinatesOfLine(line) ==
    pushedOf(matchAll(1, line, 1), matchAll(2, line, 1), matchAll(3, line, 1))

extractCoordinatesFromLine(line, airspace) ==
    With(airspace, "boundaries", Arr(airspace.v.boundaries.v \o coordinatesOfLine(line)))

\* FL\d+ at k under the i flag: the position after it, or 0
flightLevelEnd(s, k) ==
    IF matchAtIgnoreCase(s, k, FL) /\ RunEnd(s, k + 2, Digits) > k + 2
    THEN RunEnd(s, k + 2, Digits) ELSE 0

\* (SFC|GND|FL\d+|\d+) at k, and (UNL|FL\d+|\d+) at k: the position after, or 0
lowerEnd(s, k) ==
    IF matchAtIgnoreCase(s, k, SFC) \/ matchAtIgnoreCase(s, k, GND) THEN k + 3
    ELSE IF flightLevelEnd(s, k) # 0 THEN flightLevelEnd(s, k)
    ELSE IF RunEnd(s, k, Digits) > k THEN RunEnd(s, k, Digits)
    ELSE 0

upperEnd(s, k) ==
    IF matchAtIgnoreCase(s, k, UNL) THEN k + 3
    ELSE IF flightLevelEnd(s, k) # 0 THEN flightLevelEnd(s, k)
    ELSE IF RunEnd(s, k, Digits) > k THEN RunEnd(s, k, Digits)
    ELSE 0

\* /(SFC|GND|FL\d+|\d+)\s*-\s*(UNL|FL\d+|\d+)/i tried at k: the two groups
rangeMatchAt(s, k) ==
    LET e == lowerEnd(s, k)
        dash == RunEnd(s, e, WhiteSpace)
        u == RunEnd(s, dash + 1, WhiteSpace)
    IN  IF k >= 1 /\ e # 0 /\ CharAt(s, dash, "-") /\ upperEnd(s, u) # 0
        THEN <<SubSeq(s, k, e - 1), SubSeq(s, u, upperEnd(s, u) - 1)>>
        ELSE <<>>

rangeMatch(s) == FirstOf([k \in 1..Len(s) |-> rangeMatchAt(s, k)], <<>>)

\* extractVerticalLimits with the two ends of a range exchanged
limitsOf_Exchanged(text, airspace, range) ==
    IF range # <<>>
    THEN With(With(airspace, "lowerLimit", Str(range[2])), "upperLimit", Str(range[1]))
    ELSE IF matchAtIgnoreCase(text, 1, SFC) \/ matchAtIgnoreCase(text, 1, GND)
    THEN With(airspace, "lowerLimit", Str(text))
    ELSE IF flightLevelEnd(text, 1) # 0 \/ matchAtIgnoreCase(text, 1, UNL)
    THEN With(airspace, "upperLimit", Str(text))
    ELSE airspace

\* extractVerticalLimits once the range expression is tried
limitsOf(text, airspace, range) ==
    IF range # <<>>
    THEN With(With(airspace, "lowerLimit", Str(range[1])), "upperLimit", Str(range[2]))
    ELSE IF matchAtIgnoreCase(text, 1, SFC) \/ matchAtIgnoreCase(text, 1, GND)
    THEN With(airspace, "lowerLimit", Str(text))
    ELSE IF flightLevelEnd(text, 1) # 0 \/ matchAtIgnoreCase(text, 1, UNL)
    THEN With(airspace, "upperLimit", Str(text))
    ELSE airspace

extractVerticalLimits(text, airspace) == limitsOf(text, airspace, rangeMatch(text))

(***************************************************************************)
(* parseAirspaceText (unnamed/part_000): the scan, one line per step.      *)
(***************************************************************************)
\* currentAirspace && currentAirspace.boundaries.length > 0
hasBoundaries(airspace) == airspace.t # "null" /\ Len(airspace.v.boundaries.v) > 0

\* the call: the lines are split and trimmed, nothing is scanned yet
ParseAirspaceText ==
    /\ op = "input"
    /\ op' = "scanning"
    /\ lines' = [k \in 1..Len(split(input, "\n")) |-> trim(split(input, "\n")[k])]
    /\ i' = 0
    /\ airspaces' = <<>>
    /\ currentAirspace' = Null
    /\ readingLateralLimits' = FALSE
    /\ readingVerticalLimits' = FALSE
    /\ UNCHANGED <<input, result, rendererVars>>

\* if (reading) extractCoordinatesFromLine(text, airspace)
located(text, airspace, reading) ==
    IF reading THEN extractCoordinatesFromLine(text, airspace) ELSE airspace

\* if (reading) extractVerticalLimits(text, airspace)
levelled(text, airspace, reading) ==
    IF reading THEN extractVerticalLimits(text, airspace) ELSE airspace

\* the loop body with LATERAL LIMITS: leaving readingVerticalLimits as it was
ScanLine_VerticalKept ==
    /\ op = "scanning"
    /\ i < Len(lines)
    /\ i' = i + 1
    /\ LET line == lines[i + 1]
       IN  IF line = <<>>
           THEN UNCHANGED <<airspaces, currentAirspace,
                            readingLateralLimits, readingVerticalLimits>>
           ELSE IF titleMatch(line).ok
           THEN /\ airspaces' = IF hasBoundaries(currentAirspace)
                                THEN Append(airspaces, currentAirspace) ELSE airspaces
                /\ currentAirspace' = newAirspace(titleMatch(line))
                /\ readingLateralLimits' = FALSE
                /\ readingVerticalLimits' = FALSE
           ELSE IF currentAirspace.t = "null"
           THEN UNCHANGED <<airspaces, currentAirspace,
                            readingLateralLimits, readingVerticalLimits>>
           ELSE IF lateralLimits(line) # 0
           THEN /\ readingLateralLimits' = TRUE
                /\ UNCHANGED readingVerticalLimits
                /\ currentAirspace' =
                      located(afterHeading(line, lateralLimits(line)), currentAirspace,
                              afterHeading(line, lateralLimits(line)) # <<>>)
                /\ UNCHANGED airspaces
           ELSE IF verticalLimits(line) # 0
           THEN /\ readingLateralLimits' = FALSE
                /\ readingVerticalLimits' = TRUE
                /\ currentAirspace' =
                      extractVerticalLimits(afterHeading(line, verticalLimits(line)),
                                            currentAirspace)
                /\ UNCHANGED airspaces
           ELSE IF hoursOfActivation(line) # 0
           THEN /\ currentAirspace' =
                      With(currentAirspace, "hoursOfOperation",
                           Str(afterHeading(line, hoursOfActivation(line))))
                /\ readingLateralLimits' = FALSE
                /\ readingVerticalLimits' = FALSE
                /\ UNCHANGED airspaces
           ELSE IF controllingAuthority(line) # 0
           THEN /\ currentAirspace' =
                      With(currentAirspace, "controllingAuthority",
                           Str(afterHeading(line, controllingAuthority(line))))
                /\ readingLateralLimits' = FALSE
                /\ readingVerticalLimits' = FALSE
                /\ UNCHANGED airspaces
           ELSE /\ currentAirspace' =
                      levelled(line,
                               located(line, currentAirspace, readingLateralLimits),
                               readingVerticalLimits)
                /\ UNCHANGED <<airspaces, readingLateralLimits, readingVerticalLimits>>
    /\ UNCHANGED <<op, input, result, lines, rendererVars>>

\* one iteration of the loop, on lines[i]
ScanLine ==
    /\ op = "scanning"
    /\ i < Len(lines)
    /\ i' = i + 1
    /\ LET line == lines[i + 1]
       IN  IF line = <<>>
           THEN UNCHANGED <<airspaces, currentAirspace,
                            readingLateralLimits, readingVerticalLimits>>
           ELSE IF titleMatch(line).ok
           THEN /\ airspaces' = IF hasBoundaries(currentAirspace)
                                THEN Append(airspaces, currentAirspace) ELSE airspaces
                /\ currentAirspace' = newAirspace(titleMatch(line))
                /\ readingLateralLimits' = FALSE
                /\ readingVerticalLimits' = FALSE
           ELSE IF currentAirspace.t = "null"
           THEN UNCHANGED <<airspaces, currentAirspace,
                            readingLateralLimits, readingVerticalLimits>>
           ELSE IF lateralLimits(line) # 0
           THEN /\ readingLateralLimits' = TRUE
                /\ readingVerticalLimits' = FALSE
                /\ currentAirspace' =
                      located(afterHeading(line, lateralLimits(line)), currentAirspace,
                              afterHeading(line, lateralLimits(line)) # <<>>)
                /\ UNCHANGED airspaces
           ELSE IF verticalLimits(line) # 0
           THEN /\ readingLateralLimits' = FALSE
                /\ readingVerticalLimits' = TRUE
                /\ currentAirspace' =
                      extractVerticalLimits(afterHeading(line, verticalLimits(line)),
                                            currentAirspace)
                /\ UNCHANGED airspaces
           ELSE IF hoursOfActivation(line) # 0
           THEN /\ currentAirspace' =
                      With(currentAirspace, "hoursOfOperation",
                           Str(afterHeading(line, hoursOfActivation(line))))
                /\ readingLateralLimits' = FALSE
                /\ readingVerticalLimits' = FALSE
                /\ UNCHANGED airspaces
           ELSE IF controllingAuthority(line) # 0
           THEN /\ currentAirspace' =
                      With(currentAirspace, "controllingAuthority",
                           Str(afterHeading(line, controllingAuthority(line))))
                /\ readingLateralLimits' = FALSE
                /\ readingVerticalLimits' = FALSE
                /\ UNCHANGED airspaces
           ELSE /\ currentAirspace' =
                      levelled(line,
                               located(line, currentAirspace, readingLateralLimits),
                               readingVerticalLimits)
                /\ UNCHANGED <<airspaces, readingLateralLimits, readingVerticalLimits>>
    /\ UNCHANGED <<op, input, result, lines, rendererVars>>

\* after the loop: the last record is saved and the list returned
ReturnAirspaces ==
    /\ op = "scanning"
    /\ i = Len(lines)
    /\ op' = "parseAirspaceText"
    /\ airspaces' = IF hasBoundaries(currentAirspace)
                    THEN Append(airspaces, currentAirspace) ELSE airspaces
    /\ result' = Arr(airspaces')
    /\ UNCHANGED <<rendererVars, input, lines, i, currentAirspace,
                   readingLateralLimits, readingVerticalLimits>>

(***************************************************************************)
(* parseDAHFile (README.md) applied to a file content.                     *)
(***************************************************************************)
ParseDAHFile ==
    /\ op = "input"
    /\ op' = "parseDAHFile"
    /\ result' = parseDAHFile(input, ParseStamp)
    /\ UNCHANGED <<input, scanVars, rendererVars>>

(***************************************************************************)
(* CSV files: a header line and up to MaxRows further lines.  The latitude *)
(* of a data row is the number of its line, so that a boundary point tells *)
(* the row it came from.                                                   *)
(***************************************************************************)
CsvHeader == <<"a", "i", "r", "s", "p", "a", "c", "e", " ", "i", "d", ",", "l", "a", "t", ",", "l", "o", "n", ",", "s", "e", "q", "u", "e", "n", "c", "e">>

\* <<id, sequence>> of the kinds of data row
CsvRowKinds ==
    { <<<<"A">>, <<"1">>>>, <<<<"A">>, <<"2">>>>, <<<<"A">>, <<>>>>, <<<<"B">>, <<"1">>>>, <<<<"7">>, <<"2">>>>,
      <<<<>>, <<"1">>>> }

\* the line of the given kind at line number k: a data row with coordinates, a
\* data row without, a row that is one value short, or a blank line
CsvLinesAt(k) ==
    { kind[1] \o <<",">> \o NatToChars(k) \o <<",", "5", ",">> \o kind[2] : kind \in CsvRowKinds }
    \cup { <<"A", ",", ",", ",", "1">>, <<"A", ",">> \o NatToChars(k), <<" ", " ">> }

\* the files of n lines after the header
RECURSIVE CsvRowsOf(_)
CsvRowsOf(n) ==
    IF n = 0 THEN {<<>>}
    ELSE { Append(rows, line) : rows \in CsvRowsOf(n - 1), line \in CsvLinesAt(n) }

CsvTexts ==
    UNION { { CsvHeader \o Flatten([k \in 1..n |-> <<"\n">> \o rows[k]]) :
                rows \in CsvRowsOf(n) } : n \in 0..MaxRows }

InitCsv ==
    /\ op = "input"
    /\ input \in CsvTexts
    /\ result = NoResult
    /\ ScanIdle
    /\ RendererIdle

NextCsv == ParseDAHFile

SpecCsv == InitCsv /\ [][NextCsv]_vars

\* the lines of a text that are not blank, and the values of its data rows
NonBlankLines(t) ==
    SelectSeq(split(t, "\n"), LAMBDA l : \E k \in 1..Len(l) : l[k] \notin WhiteSpace)

TooFewLines == "CSV file must have headers and at least one data row"

\* C3: when fewer than 2 non-blank lines remain, the CSV parser fails, the
\* failure surfaces as 'Failed to parse DAH file: ...', and nothing of the
\* parsed data is returned
C3_TooFewLinesFails ==
    (op = "parseDAHFile" /\ detectFileFormat(input) = "csv"
        /\ Len(NonBlankLines(input)) < 2) =>
        /\ IsThrow(result)
        /\ result.v = <<"Failed to parse DAH file: ", TooFewLines>>

\* C3 witness: a header followed by a blank line only was parsed and failed
C3_Witness ==
    /\ op = "parseDAHFile"
    /\ input = CsvHeader \o <<"\n", " ", " ">>
    /\ IsThrow(result)

\* the data rows of a CSV text of the model, by line number: their values, and
\* which of them the parser accepts (as many values as headers)
DataRow(t, k) == split(NonBlankLines(t)[k + 1], ",")

AcceptedRows(t) ==
    { k \in 1..(Len(NonBlankLines(t)) - 1) : Len(DataRow(t, k)) = 4 }

RowId(t, k) ==
    IF DataRow(t, k)[1] = <<>> THEN <<"A", "I", "R", "S", "P", "A", "C", "E", "_">> \o NatToChars(k) ELSE DataRow(t, k)[1]

RowHasPoint(t, k) == DataRow(t, k)[2] # <<>> /\ DataRow(t, k)[3] # <<>>

RowLatitude(t, k) == DigitsToInt(DataRow(t, k)[2])

RowSequence(t, k) == DigitsToInt(DataRow(t, k)[4])

\* C4: after the CSV post-pass every id has a single record, rows of different
\* ids are in different records, and the boundaries of a record are the points
\* of the rows of its id, ascending by sequence, points of equal sequence in
\* the order of their rows
C4_MergedAndSorted ==
    (op = "parseDAHFile" /\ detectFileFormat(input) = "csv" /\ ~IsThrow(result)) =>
        LET records == result.v.airspaces.v
            rowsOf(r) == { k \in AcceptedRows(input) :
                              RowId(input, k) = r.v.id.v /\ RowHasPoint(input, k) }
            points(r) == r.v.boundaries.v
        IN  /\ \A j, k \in 1..Len(records) : j # k => records[j].v.id # records[k].v.id
            /\ { records[j].v.id.v : j \in 1..Len(records) }
                  = { RowId(input, k) : k \in AcceptedRows(input) }
            /\ \A j \in 1..Len(records) :
                  /\ Len(points(records[j])) = Cardinality(rowsOf(records[j]))
                  /\ { points(records[j])[n].v.latitude.v : n \in 1..Len(points(records[j])) }
                        = { RowLatitude(input, k) : k \in rowsOf(records[j]) }
                  /\ \A n \in 1..Len(points(records[j])) :
                        \E k \in rowsOf(records[j]) :
                            /\ points(records[j])[n].v.latitude.v = RowLatitude(input, k)
                            /\ points(records[j])[n].v.sequence.v = RowSequence(input, k)
                  /\ \A m, n \in 1..Len(points(records[j])) :
                        m < n =>
                            \/ points(records[j])[m].v.sequence.v
                                  < points(records[j])[n].v.sequence.v
                            \/ /\ points(records[j])[m].v.sequence.v
                                    = points(records[j])[n].v.sequence.v
                               /\ points(records[j])[m].v.latitude.v
                                    < points(records[j])[n].v.latitude.v

\* C4 witness: rows (A, seq 2), (A, seq 1), (B, seq 1) gave A the points of
\* rows 2 and 1 in that order, and a separate B
C4_Witness ==
    /\ op = "parseDAHFile"
    /\ input = CsvHeader \o <<"\n", "A", ",", "1", ",", "5", ",", "2", "\n", "A", ",", "2", ",", "5", ",", "1", "\n", "B", ",", "3", ",", "5", ",", "1">>
    /\ ~IsThrow(result)
    /\ Len(result.v.airspaces.v) = 2
    /\ result.v.airspaces.v[1].v.id = Str(<<"A">>)
    /\ Len(result.v.airspaces.v[1].v.boundaries.v) = 2
    /\ result.v.airspaces.v[1].v.boundaries.v[1].v.latitude = Num(2)
    /\ result.v.airspaces.v[1].v.boundaries.v[2].v.latitude = Num(1)
    /\ result.v.airspaces.v[2].v.id = Str(<<"B">>)

(***************************************************************************)
(* Free text: up to MaxLines lines, handed to parseDAHFile (README.md) and *)
(* to parseAirspaceText (unnamed/part_000).                                *)
(***************************************************************************)
TextLines ==
    { <<"Y", "B", "B", "B", "/", "B", "R", "I", "S", "B", "A", "N", "E", " ", "C", "T", "A", " ", "A", "1">>,
      <<"C", "T", "R", "1", " ", "A", "I", "R", "S", "P", "A", "C", "E", " ", "O", "N", "E">>,
      <<"L", "A", "T", "E", "R", "A", "L", " ", "L", "I", "M", "I", "T", "S", ":", " ", "3", "3", "2", "2", "2", "2", "5", " ", "1", "4", "8", "2", "2", "2", "2", "7", "E">>,
      <<"3", "3", "2", "2", "2", "2", "5", " ", "1", "4", "8", "2", "2", "2", "2", "7", "E">>,
      <<"3", "3", ".", "5", " ", "S", " ", "1", "5", "1", ".", "2", " ", "E">>,
      <<"V", "E", "R", "T", "I", "C", "A", "L", " ", "L", "I", "M", "I", "T", "S", ":", " ", "S", "F", "C", " ", "-", " ", "F", "L", "2", "4", "5">>,
      <<"H", "O", "U", "R", "S", " ", "O", "F", " ", "A", "C", "T", "I", "V", "A", "T", "I", "O", "N", ":", " ", "H", "2", "4">>,
      <<"C", "O", "N", "T", "R", "O", "L", "L", "I", "N", "G", " ", "A", "U", "T", "H", "O", "R", "I", "T", "Y", ":", " ", "B", "N", " ", "C", "E", "N">>,
      <<"1", "2", ".", "5", ",", " ", "3", "4", ".", "5", ",">>,
      <<>> }

\* lines joined by line feeds
RECURSIVE JoinLines(_)
JoinLines(ls) ==
    IF ls = <<>> THEN <<>>
    ELSE IF Len(ls) = 1 THEN ls[1]
    ELSE ls[1] \o <<"\n">> \o JoinLines(Tail(ls))

Texts == { JoinLines(ls) : ls \in UNION { [1..n -> TextLines] : n \in 0..MaxLines } }

InitText ==
    /\ op = "input"
    /\ input \in Texts
    /\ result = NoResult
    /\ ScanIdle
    /\ RendererIdle

NextText ==
    \/ ParseDAHFile
    \/ ParseAirspaceText
    \/ ScanLine
    \/ ReturnAirspaces

SpecText == InitText /\ [][NextText]_vars

\* C5 as stated: every record in the airspace list returned by
\* parseAirspaceText, and by parseStructuredText or parseGenericFormat (the
\* parsers parseDAHFile hands a text to that is neither JSON nor CSV), has at
\* least one boundary point
C5_NoEmptyBoundaries ==
    /\ op = "parseAirspaceText" =>
          \A k \in 1..Len(result.v) : Len(result.v[k].v.boundaries.v) > 0
    /\ (op = "parseDAHFile" /\ detectFileFormat(input) \in {"structured_text", "generic"}
            /\ ~IsThrow(result)) =>
          \A k \in 1..Len(result.v.airspaces.v) :
              Len(result.v.airspaces.v[k].v.boundaries.v) > 0

(***************************************************************************)
(* The sector-format converter (converter.js, first part): the module the  *)
(* convert-dah-file handler of main.js requires.                           *)
(***************************************************************************)
Minus(x, y) == Plus(x, Times(y, Num(-1)))

\* Math.abs and Math.floor
MathAbs(x) == IF x.nan THEN NaN ELSE Ratio(Abs(x.v), Denom(x))

MathFloor(x) == IF x.nan THEN NaN ELSE Num(x.v \div Denom(x))

\* s.padStart(n, '0')
RECURSIVE padStart(_, _)
padStart(s, n) == IF Len(s) >= n THEN s ELSE padStart(<<"0">> \o s, n)

\* degStr + minStr + secStr, without the sign
formatParts_Unsigned(decimal, isLat, degrees, minutes, seconds) ==
    padStart(NumberToChars(degrees), IF isLat THEN 2 ELSE 3)
        \o padStart(NumberToChars(minutes), 2)
        \o padStart(NumberToChars(seconds), 2)

\* sign + degStr + minStr + secStr
formatParts(decimal, isLat, degrees, minutes, seconds) ==
    (IF ~decimal.nan /\ decimal.v < 0 THEN <<"-">> ELSE <<>>)
        \o padStart(NumberToChars(degrees), IF isLat THEN 2 ELSE 3)
        \o padStart(NumberToChars(minutes), 2)
        \o padStart(NumberToChars(seconds), 2)

\* minutes = Math.floor(minutesDecimal);
\* seconds = Math.floor((minutesDecimal - minutes) * 60)
formatFromMinutes(decimal, isLat, degrees, minutesDecimal) ==
    formatParts(decimal, isLat, degrees, MathFloor(minutesDecimal),
                MathFloor(Times(Minus(minutesDecimal, MathFloor(minutesDecimal)), Num(60))))

\* minutesDecimal = (absolute - degrees) * 60
formatFromDegrees(decimal, isLat, absolute, degrees) ==
    formatFromMinutes(decimal, isLat, degrees, Times(Minus(absolute, degrees), Num(60)))

\* the arrow function formatDMS of formatCoordinate
formatDMS(decimal, isLat) ==
    formatFromDegrees(decimal, isLat, MathAbs(decimal), MathFloor(MathAbs(decimal)))

formatCoordinate(lat, lon) == Arr(<<Str(formatDMS(lat, TRUE)), Str(formatDMS(lon, FALSE))>>)

\* parseAltitude after str = altStr.toString().toUpperCase().trim().  Both
\* letters of /F?L?(\d+)/ are optional, so it matches at the first run of
\* digits, as /(\d+)\s*(FT|'|FEET)?/ does; each gives that run as group 1
parseAltitudeText(str) ==
    IF str = UNL \/ str = UNLIMITED THEN Num(999)
    ELSE IF str = GND \/ str = GROUND \/ str = SFC THEN Null
    ELSE IF FirstDigitRun(str) # <<>> THEN parseInt(FirstDigitRun(str))
    ELSE IF FirstDigitRun(str) # <<>>
         THEN MathFloor(Over(parseInt(FirstDigitRun(str)), 100))
    ELSE Null

parseAltitude(altStr) ==
    IF ~Truthy(altStr) THEN Null
    ELSE parseAltitudeText(trim(toUpperCase(StringOf(altStr))))

\* nameUpper.match(/([A-Z]{3,4})/): the leftmost three letters, and the fourth
\* when it is a letter too
codeMatch(nameUpper) ==
    LeastFrom(1, Len(nameUpper) - 2, LAMBDA k : AllIn(nameUpper, k, k + 2, UpperLetters))

codeAt(nameUpper, k) ==
    IF k = 0 THEN Null
    ELSE IF AllIn(nameUpper, k, k + 3, UpperLetters) THEN Str(SubSeq(nameUpper, k, k + 3))
    ELSE Str(SubSeq(nameUpper, k, k + 2))

\* extractPositionId after nameUpper = (name || id || '').toUpperCase()
positionIdOf(nameUpper) ==
    IF includes(nameUpper, <<"C", "O", "R", "A", "L">>) THEN Str(<<"C", "O", "L">>)
    ELSE IF includes(nameUpper, <<"F", "L", "I", "N", "D", "E", "R", "S">>) THEN Str(<<"F", "L", "D">>)
    ELSE IF includes(nameUpper, <<"H", "O", "W", "E">>) THEN Str(<<"H", "W", "E">>)
    ELSE IF includes(nameUpper, <<"T", "A", "S", "M", "A", "N">>) THEN Str(<<"T", "S", "N">>)
    ELSE IF includes(nameUpper, <<"I", "N", "D", "I", "A", "N", " ", "E", "A", "S", "T">>) THEN Str(<<"I", "N", "E">>)
    ELSE IF includes(nameUpper, <<"I", "N", "D", "I", "A", "N", " ", "S", "O", "U", "T", "H">>) THEN Str(<<"I", "N", "S">>)
    ELSE IF includes(nameUpper, <<"I", "N", "D", "I", "A", "N">>) THEN Str(<<"I", "N", "D">>)
    ELSE IF includes(nameUpper, <<"H", "O", "N", "I", "A", "R", "A">>) THEN Str(<<"A", "G", "G", "G">>)
    ELSE IF includes(nameUpper, <<"N", "A", "U", "R", "U">>) THEN Str(<<"A", "N", "A", "U">>)
    ELSE codeAt(nameUpper, codeMatch(nameUpper))

\* toUpperCase is a function only of a string
upperOf(x) == IF x.t = "string" THEN positionIdOf(toUpperCase(x.v)) ELSE TypeErrorCall

extractPositionId(id, name) == upperOf(OrElse(name, OrElse(id, Str(<<>>))))

locationMap ==
    { <<<<"Y", "B", "B", "B">>, <<"B", "r", "i", "s", "b", "a", "n", "e">>>>,
      <<<<"Y", "B", "B", "O">>, <<"B", "r", "i", "s", "b", "a", "n", "e">>>>,
      <<<<"Y", "M", "M", "M">>, <<"M", "e", "l", "b", "o", "u", "r", "n", "e">>>>,
      <<<<"Y", "M", "M", "O">>, <<"M", "e", "l", "b", "o", "u", "r", "n", "e">>>>,
      <<<<"Y", "S", "S", "Y">>, <<"S", "y", "d", "n", "e", "y">>>>,
      <<<<"Y", "S", "S", "O">>, <<"S", "y", "d", "n", "e", "y">>>>,
      <<<<"Y", "P", "A", "D">>, <<"A", "d", "e", "l", "a", "i", "d", "e">>>>,
      <<<<"Y", "P", "P", "H">>, <<"P", "e", "r", "t", "h">>>> }

prefixMap ==
    { <<<<"Y", "B", "B", "B">>, <<"B", "N">>>>, <<<<"Y", "B", "B", "O">>, <<"B", "N">>>>,
      <<<<"Y", "M", "M", "M">>, <<"M", "L">>>>, <<<<"Y", "M", "M", "O">>, <<"M", "L">>>>,
      <<<<"Y", "S", "S", "Y">>, <<"S", "Y">>>>, <<<<"Y", "S", "S", "O">>, <<"S", "Y">>>>,
      <<<<"Y", "P", "A", "D">>, <<"A", "D">>>>, <<<<"Y", "P", "P", "H">>, <<"P", "H">>>> }

\* map[key] || other, for a table of texts
Lookup(map, key, other) ==
    IF \E e \in map : e[1] = key THEN (CHOOSE e \in map : e[1] = key)[2] ELSE other

\* locationMap[icao] || icao, the locations being texts
extractLocationName(icao) == Str(Lookup(locationMap, icao.v, icao.v))

\* prefixMap[location] || location.substring(1, 3).toUpperCase(), then
\* `${prefix}-${posId}`; locations is absent or the array of texts that
\* parseAirspaceText builds
determinePositionPrefix(locations, posId) ==
    IF ~Truthy(locations) \/ Get(locations, "length") = Num(0) THEN posId
    ELSE Str(Lookup(prefixMap, locations.v[1].v,
                    toUpperCase(SubSeq(locations.v[1].v, 2, 3)))
             \o <<"-">> \o posId.v)

\* airspace.boundaries.map(boundary => formatCoordinate(boundary.latitude,
\* boundary.longitude)); the coordinates are the numbers the parser decoded
sectorPoints(boundaries) ==
    IF boundaries.t = "array"
    THEN MapResult([k \in 1..Len(boundaries.v) |->
                        IF IsThrow(Get(boundaries.v[k], "latitude"))
                        THEN Get(boundaries.v[k], "latitude")
                        ELSE formatCoordinate(Get(boundaries.v[k], "latitude"),
                                              Get(boundaries.v[k], "longitude"))])
    ELSE TypeErrorCall

\* the sector of convertAirspace: its points, and max and min when the limits
\* are given and parseAltitude does not return null
sectorOf(airspace) ==
    Assign(EmptyObj,
        << Step(TRUE, "points", sectorPoints(Get(airspace, "boundaries"))),
           Step(/\ Truthy(Get(airspace, "upperLimit"))
                /\ Get(airspace, "upperLimit") # Str(UNL)
                /\ parseAltitude(Get(airspace, "upperLimit")) # Null,
                "max", parseAltitude(Get(airspace, "upperLimit"))),
           Step(/\ Truthy(Get(airspace, "lowerLimit"))
                /\ Get(airspace, "lowerLimit") # Str(GND)
                /\ Get(airspace, "lowerLimit") # Str(SFC)
                /\ parseAltitude(Get(airspace, "lowerLimit")) # Null,
                "min", parseAltitude(Get(airspace, "lowerLimit"))) >>)

\* x[0] of an array
First(x) == IF IsArray(x) /\ Len(x.v) > 0 THEN x.v[1] ELSE Undefined

\* owner: [] and owner.push(posId) when there is one
ownerOf(posId) ==
    IF IsThrow(posId) THEN posId ELSE IF Truthy(posId) THEN Arr(<<posId>>) ELSE Arr(<<>>)

\* convertAirspace of the sector-format converter: null for a record without
\* boundaries
convertAirspaceSector(airspace) ==
    IF IsThrow(Get(airspace, "boundaries")) THEN Get(airspace, "boundaries")
    ELSE IF ~Truthy(Get(airspace, "boundaries"))
            \/ Get(Get(airspace, "boundaries"), "length") = Num(0) THEN Null
    ELSE Assign(EmptyObj,
        << Step(TRUE, "id",
                OrElse(Get(airspace, "name"),
                       OrElse(Get(airspace, "id"), Str(<<"U", "n", "k", "n", "o", "w", "n">>)))),
           Step(HasElements(Get(airspace, "locations")),
                "group", First(Get(airspace, "locations"))),
           Step(TRUE, "owner",
                ownerOf(extractPositionId(Get(airspace, "id"), Get(airspace, "name")))),
           Step(TRUE, "sectors", MapResult(<<sectorOf(airspace)>>)) >>)

\* x.toFixed(3) of a number: three decimals, halves away from zero
toFixed3(x) ==
    IF x.nan THEN <<"N", "a", "N">>
    ELSE (IF x.v < 0 THEN <<"-">> ELSE <<>>)
            \o NatToChars(((2000 * Abs(x.v) + Denom(x)) \div (2 * Denom(x))) \div 1000)
            \o <<".">>
            \o padStart(NatToChars(((2000 * Abs(x.v) + Denom(x)) \div (2 * Denom(x))) % 1000), 3)

\* airspace.frequencies[0].toFixed(3); toFixed is a function only of a number
frequencyText(first) ==
    IF first.t = "number" THEN Str(toFixed3(first))
    ELSE IF first.t \in {"null", "undefined"} THEN TypeErrorRead
    ELSE TypeErrorCall

\* the forEach over airspace.locations: a group is added for each location
\* that has none yet
RECURSIVE addGroups(_, _)
addGroups(groups, locations) ==
    IF locations = <<>> THEN groups
    ELSE addGroups(IF Head(locations).v \in DOMAIN groups.v THEN groups
                   ELSE With(groups, Head(locations).v,
                             Obj([name |-> extractLocationName(Head(locations)),
                                  colour |-> Str(<<"#", "f", "f", "f", "f", "f", "f">>)])),
                   Tail(locations))

\* forEach is a function only of an array
groupsWith(groups, locations) ==
    IF IsArray(locations) THEN addGroups(groups, locations.v) ELSE TypeErrorCall

\* vatglassesData.positions[posId] = {...}
positionOf(airspace, posId) ==
    Assign(EmptyObj,
        << Step(TRUE, "colours", Arr(<<Obj([hex |-> Str(<<"#", "5", "6", "d", "e", "3", "7">>)])>>)),
           Step(TRUE, "pre", MapResult(<<determinePositionPrefix(Get(airspace, "locations"), posId)>>)),
           Step(TRUE, "type", Str(<<"F", "S", "S">>)),
           Step(TRUE, "frequency", frequencyText(First(Get(airspace, "frequencies")))),
           Step(TRUE, "callsign", Get(airspace, "controllingAuthority")) >>)

\* if (posId && !vatglassesData.positions[posId]) the position is added
positionsWith(positions, airspace, posId) ==
    IF IsThrow(posId) THEN posId
    ELSE IF ~Truthy(posId) THEN positions
    ELSE IF posId.v \in DOMAIN positions.v THEN positions
    ELSE Put(positions, posId.v, positionOf(airspace, posId))

\* the body of the forEach of convertToVATGlasses, converted being what
\* convertAirspace returned for the record
withConverted(vatglassesData, airspace, converted) ==
    IF IsThrow(converted) THEN converted
    ELSE IF ~Truthy(converted) THEN vatglassesData
    ELSE Assign(vatglassesData,
        << Step(TRUE, "airspace", Arr(Append(vatglassesData.v.airspace.v, converted))),
           Step(HasElements(Get(airspace, "locations")),
                "groups", groupsWith(vatglassesData.v.groups, Get(airspace, "locations"))),
           Step(/\ Truthy(Get(airspace, "controllingAuthority"))
                /\ HasElements(Get(airspace, "frequencies")),
                "positions",
                positionsWith(vatglassesData.v.positions, airspace,
                              extractPositionId(Get(airspace, "id"), Get(airspace, "name")))) >>)

RECURSIVE convertEach(_, _)
convertEach(vatglassesData, records) ==
    IF records = <<>> \/ IsThrow(vatglassesData) THEN vatglassesData
    ELSE convertEach(withConverted(vatglassesData, Head(records),
                                   convertAirspaceSector(Head(records))),
                     Tail(records))

\* { "": text }, an entry of callsigns
Unnamed(text) == Obj([k \in {""} |-> Str(text)])

\* the object convertToVATGlasses starts from
NewVatglassesData ==
    Obj([airspace |-> Arr(<<>>),
         groups |-> EmptyObj,
         positions |-> EmptyObj,
         callsigns |-> Obj([DEL |-> Unnamed(<<"C", "l", "e", "a", "r", "a", "n", "c", "e", " ", "D", "e", "l", "i", "v", "e", "r", "y">>),
                            GND |-> Unnamed(<<"G", "r", "o", "u", "n", "d">>),
                            TWR |-> Unnamed(<<"T", "o", "w", "e", "r">>),
                            APP |-> Unnamed(<<"A", "p", "p", "r", "o", "a", "c", "h">>),
                            DEP |-> Unnamed(<<"D", "e", "p", "a", "r", "t", "u", "r", "e">>)]),
         airports |-> EmptyObj])

\* convertToVATGlasses of the sector-format converter.  A value without an
\* airspaces property, such as a promise, gives the starting object back
convertToVATGlassesSector(parsedData) ==
    IF IsThrow(Get(parsedData, "airspaces")) THEN Get(parsedData, "airspaces")
    ELSE IF ~HasElements(Get(parsedData, "airspaces")) THEN NewVatglassesData
    ELSE IF ~IsArray(Get(parsedData, "airspaces")) THEN TypeErrorCall
    ELSE convertEach(NewVatglassesData, Get(parsedData, "airspaces").v)

(***************************************************************************)
(* The convert-dah-file handler (main.js) with the parser it requires      *)
(* (unnamed/part_000).  parseDAHFile is an async function: calling it      *)
(* gives a promise.  Its text argument is no Buffer, so its body runs      *)
(* without reaching an await and the promise is settled when the call      *)
(* returns; the value of the promise is seen only by who awaits it.        *)
(***************************************************************************)
Promise(state, value) == [t |-> "promise", state |-> state, value |-> value]

\* what the body of parseDAHFile returns, or throws, given what
\* parseAirspaceText returned
parseDAHFileBody(returned, iso) ==
    IF IsThrow(returned) THEN FailedToParse(returned)
    ELSE Obj([airspaces |-> returned,
              metadata |-> Obj([parseDate |-> Str(iso), source |-> Str(SourceName)])])

\* the promise of the call of the async function
parseDAHFilePromise(returned, iso) ==
    IF IsThrow(parseDAHFileBody(returned, iso))
    THEN Promise("rejected", parseDAHFileBody(returned, iso))
    ELSE Promise("fulfilled", parseDAHFileBody(returned, iso))

\* the answers of the handler
Success(data) == Obj([success |-> Bool(TRUE), data |-> data])
Failure(error) == Obj([success |-> Bool(FALSE), error |-> Str(error.v)])

\* return { success: true, data: vatglassesData }, or the catch clause
answerOf(vatglassesData) ==
    IF IsThrow(vatglassesData) THEN Failure(vatglassesData) ELSE Success(vatglassesData)

ReadError == Throw("ENOENT: no such file or directory")

\* await fs.readFile(filePath, 'utf-8'): the content is read, or the read is
\* rejected and the catch clause answers
ReadFile ==
    /\ op = "convert-dah-file"
    /\ \/ /\ op' = "input"
          /\ UNCHANGED result
       \/ /\ op' = "answered"
          /\ result' = Failure(ReadError)
    /\ UNCHANGED <<input, scanVars, rendererVars>>

\* const parsedData = parseDAHFile(fileContent), once parseAirspaceText has
\* returned inside it; convertToVATGlasses(parsedData); the answer
AnswerConversion ==
    /\ op = "parseAirspaceText"
    /\ op' = "answered"
    /\ result' = answerOf(convertToVATGlassesSector(parseDAHFilePromise(result, ParseStamp)))
    /\ UNCHANGED <<input, scanVars, rendererVars>>

InitHandler ==
    /\ op = "convert-dah-file"
    /\ input \in Texts
    /\ result = NoResult
    /\ ScanIdle
    /\ RendererIdle

NextHandler ==
    \/ ReadFile
    \/ ParseAirspaceText
    \/ ScanLine
    \/ ReturnAirspaces
    \/ AnswerConversion

SpecHandler == InitHandler /\ [][NextHandler]_vars

\* C11 as stated: the handler answers with a single failure result when the
\* read, the parse or the conversion failed, and answers success only with
\* the conversion of the completed parse of the document (airspaces holds what
\* parseAirspaceText returned for it)
C11_FailureOrCompletedParse ==
    op = "answered" =>
        \/ /\ Get(result, "success") = Bool(FALSE)
           /\ Get(result, "error").t = "string"
        \/ /\ Get(result, "success") = Bool(TRUE)
           /\ Get(result, "data")
                = convertToVATGlassesSector(parseDAHFileBody(Arr(airspaces), ParseStamp))

(***************************************************************************)
(* JSON files handed to parseDAHFile (README.md): an object with any of    *)
(* the lists airspaces, positions and airports, of up to MaxRecords        *)
(* records each.                                                           *)
(***************************************************************************)
\* {"id":"<letter><k>"}
JsonRecord(letter, k) ==
    <<"{", "\"", "i", "d", "\"", ":", "\"", letter>> \o NatToChars(k) \o <<"\"", "}">>

\* the records 1..n of a list, separated by commas
RECURSIVE JsonRecords(_, _)
JsonRecords(letter, n) ==
    IF n = 0 THEN <<>>
    ELSE IF n = 1 THEN JsonRecord(letter, 1)
    ELSE JsonRecords(letter, n - 1) \o <<",">> \o JsonRecord(letter, n)

\* the member "name":[...] with n records; no member when n = -1
JsonMember(name, letter, n) ==
    IF n = -1 THEN <<>>
    ELSE << <<"\"">> \o name \o <<"\"", ":", "[">> \o JsonRecords(letter, n) \o <<"]">> >>

\* the members separated by commas
RECURSIVE JoinMembers(_)
JoinMembers(ms) ==
    IF ms = <<>> THEN <<>>
    ELSE IF Len(ms) = 1 THEN ms[1]
    ELSE ms[1] \o <<",">> \o JoinMembers(Tail(ms))

JsonFile(a, p, q) ==
    <<"{">>
        \o JoinMembers(JsonMember(<<"a", "i", "r", "s", "p", "a", "c", "e", "s">>, "A", a)
                        \o JsonMember(<<"p", "o", "s", "i", "t", "i", "o", "n", "s">>, "P", p)
                        \o JsonMember(<<"a", "i", "r", "p", "o", "r", "t", "s">>, "Y", q))
        \o <<"}">>

JsonFiles == { JsonFile(a, p, q) : a \in -1..MaxRecords, p \in -1..MaxRecords, q \in -1..MaxRecords }

InitJson ==
    /\ op = "input"
    /\ input \in JsonFiles
    /\ result = NoResult
    /\ ScanIdle
    /\ RendererIdle

NextJson == ParseDAHFile

SpecJson == InitJson /\ [][NextJson]_vars

\* C12 as stated: when the JSON input holds a positions or an airports array,
\* the parsed data parseDAHFile returns holds those same records as its
\* positions and airports
C12_PositionsAndAirportsCarried ==
    (op = "parseDAHFile" /\ detectFileFormat(input) = "json" /\ ~IsThrow(result)) =>
        /\ IsArray(Get(JSONparse(input), "positions")) =>
              Get(result, "positions") = Get(JSONparse(input), "positions")
        /\ IsArray(Get(JSONparse(input), "airports")) =>
              Get(result, "airports") = Get(JSONparse(input), "airports")

(***************************************************************************)
(* Airspace blocks handed to parseAirspaceText (unnamed/part_000) and the  *)
(* parse handed on to convertToVATGlasses (src/js/converter.js).           *)
(***************************************************************************)
MaxBlocks == 2        \* airspace blocks of a text

\* lines of boundary points, in the three notations of
\* extractCoordinatesFromLine; the fourth mixes two notations
PointLines ==
    << <<"3", "4", "0", "0", "0", "0", "0", "S", " ", "1", "5", "0", "0", "0", "0", "0", "0", "E", " ",
         "3", "5", "0", "0", "0", "0", "0", "S", " ", "1", "5", "1", "0", "0", "0", "0", "0", "E">>,
       <<"1", "0", "°", "0", "'", "0", "\"", "N", " ", "2", "0", "°", "0", "'", "0", "\"", "W", " ",
         "1", "1", "°", "0", "'", "0", "\"", "N", " ", "2", "1", "°", "0", "'", "0", "\"", "W">>,
       <<"3", "6", "0", "0", "0", "0", "0", " ", "5", "2", "0", "0", "0", "0", "0", " ",
         "3", "7", "0", "0", "0", "0", "0", " ", "5", "3", "0", "0", "0", "0", "0">>,
       <<"1", "0", "°", "0", "'", "0", "\"", "N", " ", "2", "0", "°", "0", "'", "0", "\"", "W", " ",
         "3", "4", "0", "0", "0", "0", "0", "S", " ", "1", "5", "0", "0", "0", "0", "0", "0", "E">> >>

\* the points each of those lines writes down, in the order of the text, as
\* far as extractCoordinatesFromLine reads them: once the first notation
\* matches on a line the other notations are not tried on it
PointsWritten ==
    << <<Point(-34, 150), Point(-35, 151)>>,
       <<Point(10, -20), Point(11, -21)>>,
       <<Point(-36, 52), Point(-37, 53)>>,
       <<Point(-34, 150)>> >>

\* a block: a title, a LATERAL LIMITS line with the points of line `first`
\* and, unless `more` is 0, a following line with the points of line `more`,
\* the line after `first` in PointLines
Blocks ==
    UNION { { [first |-> f, more |-> 0], [first |-> f, more |-> (f % Len(PointLines)) + 1] } :
                f \in 1..Len(PointLines) }

BlockLines(block, k) ==
    << <<"Y", "B", "B", "B", "/", "B", "R", "I", "S", "B", "A", "N", "E", " ", "C", "T", "A", " ", "A">>
            \o NatToChars(k),
       <<"L", "A", "T", "E", "R", "A", "L", " ", "L", "I", "M", "I", "T", "S", ":", " ">>
            \o PointLines[block.first] >>
        \o (IF block.more = 0 THEN <<>> ELSE <<PointLines[block.more]>>)

BlockPoints(block) ==
    PointsWritten[block.first] \o (IF block.more = 0 THEN <<>> ELSE PointsWritten[block.more])

RECURSIVE BlocksLines(_, _)
BlocksLines(blocks, k) ==
    IF k > Len(blocks) THEN <<>> ELSE BlockLines(blocks[k], k) \o BlocksLines(blocks, k + 1)

BlockSeqs == UNION { [1..n -> Blocks] : n \in 0..MaxBlocks }

BlockText(blocks) == JoinLines(BlocksLines(blocks, 1))

\* convertToVATGlasses applied to what parseDAHFile resolves to
ConvertParsed ==
    /\ op = "parseAirspaceText"
    /\ op' = "convertToVATGlasses"
    /\ \E stamp \in Stamps :
          result' = convertToVATGlasses(parseDAHFileBody(result, ParseStamp), stamp)
    /\ UNCHANGED <<input, scanVars, rendererVars>>

InitBoundary ==
    /\ op = "input"
    /\ input \in { BlockText(blocks) : blocks \in BlockSeqs }
    /\ result = NoResult
    /\ ScanIdle
    /\ RendererIdle

NextBoundary == ParseAirspaceText \/ ScanLine \/ ReturnAirspaces \/ ConvertParsed

SpecBoundary == InitBoundary /\ [][NextBoundary]_vars

\* the boundaries of the k-th airspace of a list
boundariesOf(list, k) == Get(list[k], "boundaries").v

\* boundary j of the output is the conversion of boundary j of the parse
convertedInOrder(parsed, converted) ==
    /\ Len(converted) = Len(parsed)
    /\ \A j \in 1..Len(parsed) :
          converted[j] = Obj([lat |-> normalizeCoordinate(Get(parsed[j], "latitude")),
                              lon |-> normalizeCoordinate(Get(parsed[j], "longitude"))])

\* C13: the parser appends the boundary points of a block in the order the
\* text writes them, and the converter maps the airspaces and the boundaries
\* of each one to one: output airspace k is parsed airspace k, with as many
\* boundaries, each the conversion of the parsed boundary at the same place
C13_BoundaryOrderPreserved ==
    /\ op \in {"parseAirspaceText", "convertToVATGlasses"} =>
          \A blocks \in BlockSeqs :
              input = BlockText(blocks) =>
                  /\ Len(airspaces) = Len(blocks)
                  /\ \A k \in 1..Len(blocks) :
                        boundariesOf(airspaces, k) = BlockPoints(blocks[k])
    /\ op = "convertToVATGlasses" =>
          /\ ~IsThrow(result)
          /\ Len(Get(result, "airspace").v) = Len(airspaces)
          /\ \A k \in 1..Len(airspaces) :
                /\ Get(Get(result, "airspace").v[k], "id") = Get(airspaces[k], "id")
                /\ convertedInOrder(boundariesOf(airspaces, k),
                                    boundariesOf(Get(result, "airspace").v, k))

\* two airspaces are converted, the second with four boundary points of two
\* notations, not all alike
C13_Witness ==
    /\ op = "convertToVATGlasses"
    /\ Len(airspaces) = 2
    /\ Len(boundariesOf(airspaces, 2)) = 4
    /\ boundariesOf(airspaces, 2)[1] # boundariesOf(airspaces, 2)[3]
    /\ Get(airspaces[1], "id") # Get(airspaces[2], "id")
    /\ Len(boundariesOf(Get(result, "airspace").v, 2)) = 4

(***************************************************************************)
(* parseCoordinate (README.md) applied to a token.                         *)
(***************************************************************************)
DmsDegrees == { <<"0">>, <<"3", "3">>, <<"1", "5", "1">> }
DmsMinutes == { <<"0">>, <<"5", "2">> }
DmsSeconds == { <<"0">>, <<"1", "2">>, <<"1", "2", ".", "5">> }
Hemispheres == { <<"N">>, <<"S">>, <<"E">>, <<"W">> }

\* the degree, minute and second markers as symbols, or as white space
DmsToken(d, m, s, symbols, h) ==
    IF symbols THEN d \o <<"°">> \o m \o <<"'">> \o s \o <<"\"">> \o h
    ELSE d \o <<" ">> \o m \o <<" ">> \o s \o <<" ">> \o h

DmsShapes == DmsDegrees \X DmsMinutes \X DmsSeconds \X BOOLEAN \X Hemispheres

DmsTokens == { DmsToken(x[1], x[2], x[3], x[4], x[5]) : x \in DmsShapes }

\* tokens that are not of that shape: decimal numbers, and texts that are
\* neither
OtherTokens ==
    { <<"3", "3", ".", "5">>, <<"-", "3", "3", ".", "5">>, <<" ", "7", " ">>,
      <<"a", "b", "c">>, <<>>, <<"N">>, <<"°">>, <<"1", "2", "a", "b", "c">>,
      <<"3", "3", ".", "5", "S">>,
      <<"x", " ", "3", "3", "°", "5", "2", "'", "1", "2", "\"", "S">> }

\* the callers hand in texts: a cell of a CSV row, or groups of a match
CoordinateArguments == { Str(token) : token \in DmsTokens \cup OtherTokens }

InitCoordinate ==
    /\ op = "input"
    /\ input \in CoordinateArguments
    /\ result = NoResult
    /\ ScanIdle
    /\ RendererIdle

ParseCoordinate ==
    /\ op = "input"
    /\ op' = "parseCoordinate"
    /\ result' = parseCoordinate(input)
    /\ UNCHANGED <<input, scanVars, rendererVars>>

NextCoordinate == ParseCoordinate

SpecCoordinate == InitCoordinate /\ [][NextCoordinate]_vars

\* degrees + minutes/60 + seconds/3600 of the three fields of a token
DmsMagnitude(x) == Sexagesimal(parseInt(x[1]), parseInt(x[2]), parseFloat(x[3]))

\* C14 as stated: for a token of the shape D M S H the result is
\* degrees + minutes/60 + seconds/3600 with the sign flipped for S and W, so
\* it is negative for S and W when the magnitude is not zero
C14_DmsTextConverted ==
    op = "parseCoordinate" =>
        \A x \in DmsShapes :
            input = Str(DmsToken(x[1], x[2], x[3], x[4], x[5])) =>
                /\ result = Southwest(DmsMagnitude(x), x[5])
                /\ (x[5] \in {<<"S">>, <<"W">>} /\ DmsMagnitude(x) # Num(0)) =>
                      (result.t = "number" /\ ~result.nan /\ result.v < 0)

\* [+-]?digits(.digits*)? or [+-]?.digits, and nothing else
IsDecimalNumber(s) ==
    LET from == IF Len(s) > 0 /\ s[1] \in {"+", "-"} THEN 2 ELSE 1
        whole == RunEnd(s, from, Digits)
        fraction == IF CharAt(s, whole, ".") THEN RunEnd(s, whole + 1, Digits) ELSE whole
    IN  /\ fraction = Len(s) + 1
        /\ \E k \in from..Len(s) : s[k] \in Digits

\* C15 as stated: parseCoordinate never throws and always returns a number,
\* and the number is 0 for every token that is neither a decimal number nor
\* holds a degrees-minutes-seconds form
C15_ZeroWhenUnparseable ==
    op = "parseCoordinate" =>
        /\ ~IsThrow(result)
        /\ result.t = "number" /\ ~result.nan
        /\ (/\ input.t = "string"
            /\ ~IsDecimalNumber(trim(input.v))
            /\ dmsMatch(trim(input.v)) = <<>>) => result = Num(0)

(***************************************************************************)
(* parseGenericFormat (README.md) applied to a text of unknown format.     *)
(***************************************************************************)
\* pieces of text that write one coordinate pair each
PairFragments ==
    << <<"3", "3", ".", "5", " ", "S", " ", "1", "5", "1", ".", "2", " ", "E", " ">>,
       <<"-", "1", "2", ".", "5", ",", " ", "3", "4", ".", "5", ",", " ">>,
       <<"1", "0", "°", " ", "2", "0", "°", " ">> >>

\* the boundary parseGenericFormat reads from each of them
PairsWritten ==
    << Obj([latitude |-> Ratio(67, 2), longitude |-> Ratio(756, 5)]),
       Obj([latitude |-> Ratio(-25, 2), longitude |-> Ratio(69, 2)]),
       Point(10, 20) >>

\* pieces of text that write none
PlainFragments ==
    << <<"h", "e", "l", "l", "o", " ">>, <<"N", " ", "z", "o", "n", "e", "\n">> >>

\* a text is a sequence of pieces: k in 1..3 is pair k, a negative k a plain one
GenericPieces == (1..Len(PairFragments)) \cup { 0 - k : k \in 1..Len(PlainFragments) }

GenericPieceSeqs == UNION { [1..n -> GenericPieces] : n \in 0..MaxParts }

RECURSIVE GenericText(_)
GenericText(pieces) ==
    IF pieces = <<>> THEN <<>>
    ELSE (IF Head(pieces) > 0 THEN PairFragments[Head(pieces)]
          ELSE PlainFragments[0 - Head(pieces)]) \o GenericText(Tail(pieces))

\* the pairs a sequence of pieces writes, in order
RECURSIVE PairsOfPieces(_)
PairsOfPieces(pieces) ==
    IF pieces = <<>> THEN <<>>
    ELSE (IF Head(pieces) > 0 THEN <<PairsWritten[Head(pieces)]>> ELSE <<>>)
            \o PairsOfPieces(Tail(pieces))

InitGeneric ==
    /\ op = "input"
    /\ input \in { GenericText(pieces) : pieces \in GenericPieceSeqs }
    /\ result = NoResult
    /\ ScanIdle
    /\ RendererIdle

ParseGenericFormat ==
    /\ op = "input"
    /\ op' = "parseGenericFormat"
    /\ result' = parseGenericFormat(input, NewParsedData(ParseStamp))
    /\ UNCHANGED <<input, scanVars, rendererVars>>

NextGeneric == ParseGenericFormat

SpecGeneric == InitGeneric /\ [][NextGeneric]_vars

\* the list holds the one record EXTRACTED_AIRSPACE with these boundaries
oneExtracted(list, pairs) ==
    /\ Len(list) = 1
    /\ Get(list[1], "id") = Str(<<"E", "X", "T", "R", "A", "C", "T", "E", "D", "_",
                                  "A", "I", "R", "S", "P", "A", "C", "E">>)
    /\ Get(list[1], "boundaries") = Arr(pairs)

\* C16: parseGenericFormat never fails; a text with no coordinate pair gives
\* an empty airspace list, and a text with n >= 1 pairs gives exactly one
\* record, with id EXTRACTED_AIRSPACE, whose boundaries are the n pairs, one
\* boundary per pair, in the order of the text
C16_OneRecordOfAllMatches ==
    op = "parseGenericFormat" =>
        /\ ~IsThrow(result)
        /\ \A pieces \in GenericPieceSeqs :
              input = GenericText(pieces) =>
                  IF PairsOfPieces(pieces) = <<>>
                  THEN Get(result, "airspaces") = Arr(<<>>)
                  ELSE oneExtracted(Get(result, "airspaces").v, PairsOfPieces(pieces))

\* a text of three pairs, not all alike, has been parsed
C16_Witness ==
    /\ op = "parseGenericFormat"
    /\ Len(Get(result, "airspaces").v) = 1
    /\ Len(Get(Get(result, "airspaces").v[1], "boundaries").v) = 3
    /\ Get(Get(result, "airspaces").v[1], "boundaries").v[1]
          # Get(Get(result, "airspaces").v[1], "boundaries").v[3]

(***************************************************************************)
(* CSV files whose data rows have as many fields as the header, or fewer,  *)
(* or more, with and without quoted fields.  The latitude of a row is the  *)
(* number of its line.                                                     *)
(***************************************************************************)
\* the kinds of data row: 1 a full row of id A, 2 a full row without id,
\* 3 a row of two fields, 4 a row of five fields, 5 a row whose quoted comma
\* leaves three fields, 6 a full row whose id holds a quoted comma
FieldRowKinds == 1..6

FieldRowAt(kind, k) ==
    CASE kind = 1 -> <<"A", ",">> \o NatToChars(k) \o <<",", "5", ",", "1">>
      [] kind = 2 -> <<",">> \o NatToChars(k) \o <<",", "5", ",", "1">>
      [] kind = 3 -> <<"A", ",">> \o NatToChars(k)
      [] kind = 4 -> <<"A", ",">> \o NatToChars(k) \o <<",", "5", ",", "1", ",", "9">>
      [] kind = 5 -> <<"A", ",", "\"">> \o NatToChars(k) \o <<",", "5", "\"", ",", "1">>
      [] kind = 6 -> <<"\"", "B", ",", "C", "\"", ",">> \o NatToChars(k) \o <<",", "5", ",", "1">>

\* the rows with as many fields as the four headers, and the id of each
FullRowKinds == {1, 2, 6}

FieldRowId(kind, k) ==
    CASE kind = 1 -> <<"A">>
      [] kind = 2 -> <<"A", "I", "R", "S", "P", "A", "C", "E", "_">> \o NatToChars(k)
      [] kind = 6 -> <<"B", ",", "C">>

FieldRowSeqs == UNION { [1..n -> FieldRowKinds] : n \in 1..MaxRows }

FieldRowsText(rows) ==
    CsvHeader \o Flatten([k \in 1..Len(rows) |-> <<"\n">> \o FieldRowAt(rows[k], k)])

InitFields ==
    /\ op = "input"
    /\ input \in { FieldRowsText(rows) : rows \in FieldRowSeqs }
    /\ result = NoResult
    /\ ScanIdle
    /\ RendererIdle

NextFields == ParseDAHFile

SpecFields == InitFields /\ [][NextFields]_vars

\* the lines of the full rows, ascending
RECURSIVE FullRowsFrom(_, _)
FullRowsFrom(rows, k) ==
    IF k > Len(rows) THEN <<>>
    ELSE (IF rows[k] \in FullRowKinds THEN <<k>> ELSE <<>>) \o FullRowsFrom(rows, k + 1)

\* the ids of the full rows, each once, in the order of their first row
FullRowIds(rows) ==
    FirstOccurrences([n \in 1..Len(FullRowsFrom(rows, 1)) |->
                        FieldRowId(rows[FullRowsFrom(rows, 1)[n]], FullRowsFrom(rows, 1)[n])])

\* the latitudes of the boundaries of a record
latitudesOf(record) ==
    [n \in 1..Len(Get(record, "boundaries").v) |->
        Get(Get(record, "boundaries").v[n], "latitude")]

\* C17: a data row whose number of fields (quotes taken into account) is not
\* that of the header raises no error and adds no record and no boundary
\* point: the records are those of the other rows, with the ids and the
\* boundary points these rows give at their own lines
C17_MismatchedRowsSkipped ==
    op = "parseDAHFile" =>
        /\ ~IsThrow(result)
        /\ \A rows \in FieldRowSeqs :
              input = FieldRowsText(rows) =>
                  /\ [j \in 1..Len(Get(result, "airspaces").v) |->
                          Get(Get(result, "airspaces").v[j], "id")]
                        = [j \in 1..Len(FullRowIds(rows)) |-> Str(FullRowIds(rows)[j])]
                  /\ \A j \in 1..Len(FullRowIds(rows)) :
                        latitudesOf(Get(result, "airspaces").v[j])
                          = [n \in 1..Len(SelectSeq(FullRowsFrom(rows, 1),
                                   LAMBDA k : FieldRowId(rows[k], k) = FullRowIds(rows)[j])) |->
                                Num(SelectSeq(FullRowsFrom(rows, 1),
                                   LAMBDA k : FieldRowId(rows[k], k) = FullRowIds(rows)[j])[n])]

\* a file of a too long row, a full row without id and a row cut short by
\* its quotes was parsed: one record, named after line 2, with its one point
C17_Witness ==
    /\ op = "parseDAHFile"
    /\ input = FieldRowsText(<<4, 2, 5>>)
    /\ ~IsThrow(result)
    /\ Len(Get(result, "airspaces").v) = 1
    /\ Get(Get(result, "airspaces").v[1], "id")
          = Str(<<"A", "I", "R", "S", "P", "A", "C", "E", "_", "2">>)
    /\ latitudesOf(Get(result, "airspaces").v[1]) = <<Num(2)>>

\* a text that is not empty
IsNonEmptyText(x) == x.t = "string" /\ x.v # <<>>

\* C18 as stated: every position of the output of the converter has a
\* callsign, a frequency and a name that are defined and not empty, whichever
\* of them the source position lacks
C18_PositionPlaceholders ==
    (op = "convertToVATGlasses" /\ ~IsThrow(result)) =>
        \A k \in 1..Len(Get(result, "positions").v) :
            /\ IsNonEmptyText(Get(Get(result, "positions").v[k], "callsign"))
            /\ IsNonEmptyText(Get(Get(result, "positions").v[k], "frequency"))
            /\ IsNonEmptyText(Get(Get(result, "positions").v[k], "name"))

(***************************************************************************)
(* convertAirspace (src/js/converter.js) applied to a parsed record, and   *)
(* again to the record it returned.                                        *)
(***************************************************************************)
\* the first n of these points
ParsedPoints == <<Point(1, 2), Point(-3, 4), Point(5, -6), Point(-7, -8)>>

\* records as the parsers build them, every property optional
ParsedRecords ==
    { ObjectOf([id |-> a, name |-> b, type |-> c, upperLimit |-> d, lowerLimit |-> e,
                boundaries |-> f]) :
        a \in {Undefined, Str(<<"A", "1">>)},
        b \in {Undefined, Str(<<"O", "n", "e">>)},
        c \in {Undefined, Str(<<"c", "o", "n", "t", "r", "o", "l", " ", "z", "o", "n", "e">>),
               Str(<<"U", "N", "K", "N", "O", "W", "N">>)},
        d \in {Undefined, Str(UNL), Str(<<"F", "L", "2", "4", "5">>)},
        e \in {Undefined, Str(GND)},
        f \in {Undefined} \cup { Arr(SubSeq(ParsedPoints, 1, n)) : n \in 0..MaxRecords } }

InitReapply ==
    /\ op = "input"
    /\ input \in ParsedRecords
    /\ result = NoResult
    /\ ScanIdle
    /\ RendererIdle

\* the record convertAirspace returns is kept as the next argument
ConvertAirspace ==
    /\ op = "input"
    /\ op' = "convertAirspace"
    /\ \E stamp \in Stamps : currentAirspace' = convertAirspace(input, stamp)
    /\ UNCHANGED <<rendererVars, input, result, lines, i, airspaces,
                   readingLateralLimits, readingVerticalLimits>>

ReapplyConvertAirspace ==
    /\ op = "convertAirspace"
    /\ ~IsThrow(currentAirspace)
    /\ op' = "convertAirspace again"
    /\ \E stamp \in Stamps : result' = convertAirspace(currentAirspace, stamp)
    /\ UNCHANGED <<input, scanVars, rendererVars>>

NextReapply == ConvertAirspace \/ ReapplyConvertAirspace

SpecReapply == InitReapply /\ [][NextReapply]_vars

\* C19: convertAirspace applied to a record it has returned does not throw,
\* and returns a record whose id, name and type are defined and whose
\* boundaries are an array with one entry per boundary of its argument
C19_ReapplicationIsValid ==
    op = "convertAirspace again" =>
        /\ ~IsThrow(result)
        /\ result.t = "object"
        /\ Get(result, "id") # Undefined
        /\ Get(result, "name") # Undefined
        /\ Get(result, "type") # Undefined
        /\ IsArray(Get(result, "boundaries"))
        /\ Len(Get(result, "boundaries").v) = Len(Get(currentAirspace, "boundaries").v)

\* a converted record with a ceiling, a floor and two boundaries was
\* converted again
C19_Witness ==
    /\ op = "convertAirspace again"
    /\ Get(currentAirspace, "ceiling") # Undefined
    /\ Get(currentAirspace, "floor") # Undefined
    /\ Len(Get(currentAirspace, "boundaries").v) = 2
    /\ Get(Get(currentAirspace, "boundaries").v[1], "lat") = Num(1)
    /\ Len(Get(result, "boundaries").v) = 2

(***************************************************************************)
(* dmsToDecimal (unnamed/part_000) followed by the DDMMSS formatter of     *)
(* formatCoordinate (converter.js).                                        *)
(***************************************************************************)
DegreeValues == {0, 1, 33, 151}
MinuteValues == {0, 1, 30, 59}
SecondValues == {0, 1, 30, 59}

DmsArguments == [d : DegreeValues, m : MinuteValues, s : SecondValues, dir : Hemispheres]

InitDms ==
    /\ op = "input"
    /\ input \in DmsArguments
    /\ result = NoResult
    /\ ScanIdle
    /\ RendererIdle

\* (absolute - degrees) * 60 is computed in binary floating point: it is the
\* exact value or, when that is not zero, a value that may lie just below it
minutesDecimalOf(decimal, below) ==
    IF below /\ MathAbs(decimal) # MathFloor(MathAbs(decimal))
    THEN Minus(Times(Minus(MathAbs(decimal), MathFloor(MathAbs(decimal))), Num(60)),
               Ratio(1, 60000))
    ELSE Times(Minus(MathAbs(decimal), MathFloor(MathAbs(decimal))), Num(60))

formatDMSRounded(decimal, isLat, below) ==
    formatFromMinutes(decimal, isLat, MathFloor(MathAbs(decimal)),
                      minutesDecimalOf(decimal, below))

\* a latitude (N, S) is formatted as the first coordinate, a longitude (E, W)
\* as the second
FormatDms ==
    /\ op = "input"
    /\ op' = "formatDMS"
    /\ \E below \in BOOLEAN :
          result' = Str(formatDMSRounded(dmsToDecimal(Num(input.d), Num(input.m),
                                                      Num(input.s), input.dir),
                                         input.dir \in {<<"N">>, <<"S">>}, below))
    /\ UNCHANGED <<input, scanVars, rendererVars>>

NextDms == FormatDms

SpecDms == InitDms /\ [][NextDms]_vars

\* the formatted text read back: whether it is signed, and the arc-seconds
\* its digits stand for (the last two the seconds, the two before the
\* minutes, the others the degrees)
IsSigned(text) == Len(text) > 0 /\ text[1] = "-"

Unsigned(text) == IF IsSigned(text) THEN Tail(text) ELSE text

ArcSecondsOf(digits) ==
    3600 * DigitsToInt(SubSeq(digits, 1, Len(digits) - 4))
        + 60 * DigitsToInt(SubSeq(digits, Len(digits) - 3, Len(digits) - 2))
        + DigitsToInt(SubSeq(digits, Len(digits) - 1, Len(digits)))

\* d, m and s are recovered to within one arc-second
Recovered(x, text) ==
    /\ Len(Unsigned(text)) >= 6
    /\ \A k \in 1..Len(Unsigned(text)) : Unsigned(text)[k] \in Digits
    /\ Abs(ArcSecondsOf(Unsigned(text)) - (3600 * x.d + 60 * x.m + x.s)) <= 1

\* C20 as stated: the formatted value of dmsToDecimal(d, m, s, dir) recovers
\* d, m and s to within one arc-second and is signed exactly when dir is S
\* or W, also when d, m and s are all zero
C20_RoundTripSigned ==
    op = "formatDMS" =>
        /\ Recovered(input, result.v)
        /\ IsSigned(result.v) <=> input.dir \in {<<"S">>, <<"W">>}

\* C20 amended: the formatted value recovers d, m and s to within one
\* arc-second and is signed exactly when dir is S or W and d, m and s are not
\* all zero; zero is formatted without a sign for every direction
C20_RoundTripSignedUnlessZero ==
    op = "formatDMS" =>
        /\ Recovered(input, result.v)
        /\ IsSigned(result.v) <=>
              (input.dir \in {<<"S">>, <<"W">>} /\ 3600 * input.d + 60 * input.m + input.s # 0)

\* 33 degrees 30 minutes 59 seconds South was formatted as -333059
C20_Witness ==
    /\ op = "formatDMS"
    /\ input = [d |-> 33, m |-> 30, s |-> 59, dir |-> <<"S">>]
    /\ result = Str(<<"-", "3", "3", "3", "0", "5", "9">>)

(***************************************************************************)
(* mapColumnNames (README.md) applied to a header row.                     *)
(***************************************************************************)
\* header names, lower case as parseCSVFormat hands them in, with the role
\* each one asks for ("" for none; a bare name asks for the name role)
HeaderRoles ==
    << <<<<"a", "i", "r", "s", "p", "a", "c", "e", " ", "i", "d">>, "id">>,
       <<<<"a", "i", "r", "s", "p", "a", "c", "e", " ", "n", "a", "m", "e">>, "name">>,
       <<<<"n", "a", "m", "e">>, "name">>,
       <<<<"l", "a", "t">>, "latitude">>,
       <<<<"l", "a", "t", "i", "t", "u", "d", "e">>, "latitude">>,
       <<<<"l", "o", "n">>, "longitude">>,
       <<<<"t", "y", "p", "e">>, "type">>,
       <<<<"i", "d">>, "">> >>

HeaderNames == { HeaderRoles[k][1] : k \in 1..Len(HeaderRoles) }

RoleAskedBy(header) ==
    HeaderRoles[CHOOSE k \in 1..Len(HeaderRoles) : HeaderRoles[k][1] = header][2]

HeaderRows == UNION { [1..n -> HeaderNames] : n \in 0..MaxParts }

InitColumns ==
    /\ op = "input"
    /\ input \in HeaderRows
    /\ result = NoResult
    /\ ScanIdle
    /\ RendererIdle

MapColumnNames ==
    /\ op = "input"
    /\ op' = "mapColumnNames"
    /\ result' = mapColumnNames(input)
    /\ UNCHANGED <<input, scanVars, rendererVars>>

NextColumns == MapColumnNames

SpecColumns == InitColumns /\ [][NextColumns]_vars

\* the first header of the row that satisfies Test, or null
FirstHeader(row, Test(_)) ==
    IF \E k \in 1..Len(row) : Test(row[k])
    THEN Str(row[CHOOSE k \in 1..Len(row) :
                    Test(row[k]) /\ \A j \in 1..(k - 1) : ~Test(row[j])])
    ELSE Null

IsAirspaceName(header) == header = <<"a", "i", "r", "s", "p", "a", "c", "e", " ", "n", "a", "m", "e">>

IsBareName(header) == header = <<"n", "a", "m", "e">>

\* C21 as stated: of several headers that ask for the same role the first
\* in the row is bound to it, and a bare name header is bound to the name
\* role only if the row has no airspace name header
C21_FirstHeaderWins ==
    op = "mapColumnNames" =>
        /\ \A role \in {"id", "type", "latitude", "longitude"} :
              result[role] = FirstHeader(input, LAMBDA h : RoleAskedBy(h) = role)
        /\ result.name = IF \E k \in 1..Len(input) : IsAirspaceName(input[k])
                         THEN FirstHeader(input, IsAirspaceName)
                         ELSE FirstHeader(input, IsBareName)

(***************************************************************************)
(* parseAirspaceText (unnamed/part_000) on a title followed by marker      *)
(* lines and lines of points and limits.                                   *)
(***************************************************************************)
TitleLine == <<"Y", "B", "B", "B", "/", "B", "R", "I", "S", "B", "A", "N", "E", " ", "C", "T", "A", " ", "A", "1">>
LateralLine == <<"L", "A", "T", "E", "R", "A", "L", " ", "L", "I", "M", "I", "T", "S", ":", " ", "3", "4", "0", "0", "0", "0", "0", "S", " ", "1", "5", "0", "0", "0", "0", "0", "0", "E">>
VerticalLine == <<"V", "E", "R", "T", "I", "C", "A", "L", " ", "L", "I", "M", "I", "T", "S", ":", " ", "S", "F", "C", " ", "-", " ", "F", "L", "2", "4", "5">>
ActivationLine == <<"H", "O", "U", "R", "S", " ", "O", "F", " ", "A", "C", "T", "I", "V", "A", "T", "I", "O", "N", ":", " ", "H", "2", "4">>
OperationLine == <<"H", "O", "U", "R", "S", " ", "O", "F", " ", "O", "P", "E", "R", "A", "T", "I", "O", "N", ":", " ", "H", "2", "4">>
AuthorityLine == <<"C", "O", "N", "T", "R", "O", "L", "L", "I", "N", "G", " ", "A", "U", "T", "H", "O", "R", "I", "T", "Y", ":", " ", "B", "N", " ", "C", "E", "N">>
PointLine == <<"3", "5", "0", "0", "0", "0", "0", "S", " ", "1", "5", "1", "0", "0", "0", "0", "0", "E">>
LimitsLine == <<"F", "L", "1", "0", "0", " ", "-", " ", "F", "L", "2", "0", "0">>

MarkerLines ==
    { TitleLine, LateralLine, VerticalLine, ActivationLine, OperationLine, AuthorityLine,
      PointLine, LimitsLine }

\* a title, then up to MaxLines lines
MarkerTexts ==
    { JoinLines(<<TitleLine>> \o ls) : ls \in UNION { [1..n -> MarkerLines] : n \in 0..MaxLines } }

InitMarkers ==
    /\ op = "input"
    /\ input \in MarkerTexts
    /\ result = NoResult
    /\ ScanIdle
    /\ RendererIdle

NextMarkers == ParseAirspaceText \/ ScanLine \/ ReturnAirspaces

SpecMarkers == InitMarkers /\ [][NextMarkers]_vars

\* the loop takes up the line at i + 1
Scans(line) == op = "scanning" /\ i < Len(lines) /\ i' = i + 1 /\ lines[i + 1] = line

\* boundaries and limits as they were
Unscanned ==
    /\ Get(currentAirspace', "boundaries") = Get(currentAirspace, "boundaries")
    /\ Get(currentAirspace', "upperLimit") = Get(currentAirspace, "upperLimit")
    /\ Get(currentAirspace', "lowerLimit") = Get(currentAirspace, "lowerLimit")

NotReading == ~readingLateralLimits /\ ~readingVerticalLimits

\* C22 as stated: a title line, a HOURS OF ACTIVATION: line, a HOURS OF
\* OPERATION: line and a CONTROLLING AUTHORITY: line each leave the scan
\* reading neither lateral nor vertical limits; the three latter are captured
\* into hoursOfOperation or controllingAuthority and not scanned for
\* coordinates or limits, and a line met while reading neither is not scanned
C22_ResetLinesEndReading ==
    [][ /\ (\E line \in {TitleLine, ActivationLine, OperationLine, AuthorityLine} : Scans(line))
            => NotReading'
        /\ (Scans(ActivationLine) \/ Scans(OperationLine)) =>
              /\ Get(currentAirspace', "hoursOfOperation") = Str(<<"H", "2", "4">>)
              /\ Unscanned
        /\ Scans(AuthorityLine) =>
              /\ Get(currentAirspace', "controllingAuthority") = Str(<<"B", "N", " ", "C", "E", "N">>)
              /\ Unscanned
        /\ ((Scans(PointLine) \/ Scans(LimitsLine)) /\ NotReading) =>
              currentAirspace' = currentAirspace ]_vars

(***************************************************************************)
(* parseAirspaceText (unnamed/part_000) on title blocks whose code groups  *)
(* have one to three tokens.                                               *)
(***************************************************************************)
YBBB == <<"Y", "B", "B", "B">>
YMMM == <<"Y", "M", "M", "M">>
YSSY == <<"Y", "S", "S", "Y">>

\* code groups, as the text writes them and as the tokens they are made of
CodeGroups ==
    << [text |-> YBBB, tokens |-> <<YBBB>>],
       [text |-> YBBB \o <<"-">> \o YMMM, tokens |-> <<YBBB, YMMM>>],
       [text |-> YBBB \o <<"-">> \o YMMM \o <<"/">> \o YSSY, tokens |-> <<YBBB, YMMM, YSSY>>],
       [text |-> YBBB \o <<"-">> \o YMMM \o <<"-">> \o YSSY, tokens |-> <<YBBB, YMMM, YSSY>>] >>

\* what follows the title of a block: nothing, a LATERAL LIMITS line with
\* one point, or that line and a VERTICAL LIMITS line
BlockBodies == {"none", "lateral", "lateral and vertical"}

TitleBlocks == [code : 1..Len(CodeGroups), body : BlockBodies]

\* the lines of block k; the latitude of its point is k degrees South
TitleBlockLines(block, k) ==
    << CodeGroups[block.code].text
            \o <<"/", "B", "R", "I", "S", "B", "A", "N", "E", " ", "C", "T", "A", " ", "A">>
            \o NatToChars(k) >>
        \o (IF block.body = "none" THEN <<>>
            ELSE << <<"L", "A", "T", "E", "R", "A", "L", " ", "L", "I", "M", "I", "T", "S", ":", " ", "0">>
                        \o NatToChars(k)
                        \o <<"0", "0", "0", "0", "0", "S", " ", "1", "5", "0", "0", "0", "0", "0", "0", "E">> >>)
        \o (IF block.body = "lateral and vertical" THEN <<VerticalLine>> ELSE <<>>)

RECURSIVE TitleBlocksLines(_, _)
TitleBlocksLines(blocks, k) ==
    IF k > Len(blocks) THEN <<>>
    ELSE TitleBlockLines(blocks[k], k) \o TitleBlocksLines(blocks, k + 1)

TitleBlockSeqs == UNION { [1..n -> TitleBlocks] : n \in 0..MaxBlocks }

InitTitles ==
    /\ op = "input"
    /\ input \in { JoinLines(TitleBlocksLines(blocks, 1)) : blocks \in TitleBlockSeqs }
    /\ result = NoResult
    /\ ScanIdle
    /\ RendererIdle

NextTitles == ParseAirspaceText \/ ScanLine \/ ReturnAirspaces

SpecTitles == InitTitles /\ [][NextTitles]_vars

\* the numbers of the blocks that have a boundary, ascending
RECURSIVE BlocksWithBoundary(_, _)
BlocksWithBoundary(blocks, k) ==
    IF k > Len(blocks) THEN <<>>
    ELSE (IF blocks[k].body # "none" THEN <<k>> ELSE <<>>) \o BlocksWithBoundary(blocks, k + 1)

\* the record is that of block k
IsRecordOfBlock(record, block, k) ==
    /\ Get(record, "boundaries") = Arr(<<Point(0 - k, 150)>>)
    /\ Get(record, "locations")
          = Arr([n \in 1..Len(CodeGroups[block.code].tokens) |->
                    Str(CodeGroups[block.code].tokens[n])])
    /\ Get(record, "lowerLimit") = Str(IF block.body = "lateral" THEN GND ELSE SFC)
    /\ Get(record, "upperLimit")
          = Str(IF block.body = "lateral" THEN UNL ELSE <<"F", "L", "2", "4", "5">>)

\* C23 as stated: the output holds, in the order of their titles, one record
\* for every title block that has a boundary and none for the others; the
\* boundaries of a record are the points of its own block, its locations all
\* the 4-letter tokens of the code group of its title, however many, and its
\* limits UNL and GND unless vertical limits were read
C23_OneRecordPerBlock ==
    op = "parseAirspaceText" =>
        \A blocks \in TitleBlockSeqs :
            input = JoinLines(TitleBlocksLines(blocks, 1)) =>
                /\ Len(result.v) = Len(BlocksWithBoundary(blocks, 1))
                /\ \A n \in 1..Len(BlocksWithBoundary(blocks, 1)) :
                      IsRecordOfBlock(result.v[n], blocks[BlocksWithBoundary(blocks, 1)[n]],
                                      BlocksWithBoundary(blocks, 1)[n])

(***************************************************************************)
(* parseAirspaceText (unnamed/part_000) reading a line of one fixed-width  *)
(* point under LATERAL LIMITS.                                             *)
(***************************************************************************)
LatitudeBlocks ==
    { <<"3", "3", "2", "2", "2", "2", "5">>, <<"0", "1", "0", "0", "0", "0", "0">>,
      <<"8", "9", "5", "9", "5", "9", "9">> }

LongitudeBlocks ==
    { <<"1", "4", "8", "2", "2", "2", "2", "7">>, <<"0", "0", "1", "0", "0", "0", "0", "0">>,
      <<"1", "5", "0", "0", "0", "0", "0", "0">> }

\* a latitude block, its letter or none, a longitude block, its letter or none
FixedPoints ==
    [lat : LatitudeBlocks, ns : {<<>>, <<"N">>, <<"S">>},
     lon : LongitudeBlocks, ew : {<<>>, <<"E">>, <<"W">>}]

FixedPointText(x) ==
    JoinLines(<<TitleLine,
                <<"L", "A", "T", "E", "R", "A", "L", " ", "L", "I", "M", "I", "T", "S", ":">>,
                x.lat \o x.ns \o <<" ">> \o x.lon \o x.ew>>)

InitFixed ==
    /\ op = "input"
    /\ input \in { FixedPointText(x) : x \in FixedPoints }
    /\ result = NoResult
    /\ ScanIdle
    /\ RendererIdle

NextFixed == ParseAirspaceText \/ ScanLine \/ ReturnAirspaces

SpecFixed == InitFixed /\ [][NextFixed]_vars

\* degrees, minutes and tenths of a second of a block whose first n digits
\* are the degrees
BlockValue(digits, n) ==
    Sexagesimal(Num(DigitsToInt(SubSeq(digits, 1, n))),
                Num(DigitsToInt(SubSeq(digits, n + 1, n + 2))),
                Ratio(DigitsToInt(SubSeq(digits, n + 3, n + 5)), 10))

\* the point the claim gives for a line
FixedPointValue(x) ==
    Obj([latitude |-> Southwest(BlockValue(x.lat, 2), IF x.ns = <<>> THEN <<"S">> ELSE x.ns),
         longitude |-> Southwest(BlockValue(x.lon, 3), IF x.ew = <<>> THEN <<"E">> ELSE x.ew)])

\* C24 as stated: a line of a 7-digit block and an 8-digit block read under
\* LATERAL LIMITS gives one boundary, the DDMMSSS value of the 7 digits and
\* the DDDMMSSS value of the 8 digits, each with the hemisphere of its letter
\* or, without a letter, South for the former and East for the latter
C24_FixedWidthPoint ==
    op = "parseAirspaceText" =>
        \A x \in FixedPoints :
            input = FixedPointText(x) =>
                /\ Len(result.v) = 1
                /\ Get(result.v[1], "boundaries") = Arr(<<FixedPointValue(x)>>)

(***************************************************************************)
(* extractVerticalLimits on its own: one line under VERTICAL LIMITS:       *)
(***************************************************************************)
FL180 == <<"F", "L", "1", "8", "0">>
Feet1500 == <<"1", "5", "0", "0">>
Feet2500 == <<"2", "5", "0", "0">>

\* the tokens a side of a range is written with
LeftSides == {SFC, GND, FL180, Feet1500, Feet2500}
RightSides == {SFC, GND, UNL, FL180, Feet1500, Feet2500}
RangeSeparators == {<<" ", "-", " ">>, <<"-">>}

H24 == <<"H", "2", "4">>
ByNotam == <<"B", "Y", " ", "N", "O", "T", "A", "M">>
NotamFL180 == <<"N", "O", "T", "A", "M", " ">> \o FL180

\* lines that hold no range: a lone token, or none at its start
LoneTexts == {SFC, UNL, FL180, H24, ByNotam, NotamFL180}

LimitTexts ==
    { l \o sep \o r : l \in LeftSides, sep \in RangeSeparators, r \in RightSides }
        \cup LoneTexts

\* the limits a record has when its title is read
TitledAirspace == Obj([upperLimit |-> Str(UNL), lowerLimit |-> Str(GND)])

InitLimits ==
    /\ op = "input"
    /\ input \in LimitTexts
    /\ result = NoResult
    /\ ScanIdle
    /\ RendererIdle

ExtractVerticalLimits ==
    /\ op = "input"
    /\ op' = "extractVerticalLimits"
    /\ result' = extractVerticalLimits(input, TitledAirspace)
    /\ UNCHANGED <<input, scanVars, rendererVars>>

NextLimits == ExtractVerticalLimits

SpecLimits == InitLimits /\ [][NextLimits]_vars

LimitsAre(lower, upper) ==
    /\ Get(result, "lowerLimit") = Str(lower)
    /\ Get(result, "upperLimit") = Str(upper)

\* C25 as stated: a range whose sides are each SFC, GND, FL<digits> or a bare
\* integer sets lowerLimit to the left token and upperLimit to the right
\* token; a line with no range and no token leaves both limits as they were
C25_RangeOfAnySides ==
    op = "extractVerticalLimits" =>
        /\ \A l \in LeftSides, sep \in RangeSeparators, r \in RightSides \ {UNL} :
              input = l \o sep \o r => LimitsAre(l, r)
        /\ input \in {H24, ByNotam} => result = TitledAirspace

\* C25 amended: the right side of a range is UNL, FL<digits> or a bare
\* integer, and then the two tokens are stored verbatim; a line with SFC or
\* GND after the hyphen is no range, and a line that is no range is stored
\* whole as lowerLimit when it starts with SFC or GND, whole as upperLimit
\* when it starts with FL<digits> or UNL, and changes nothing otherwise
C25_RangeOfLowerAndUpper ==
    op = "extractVerticalLimits" =>
        /\ \A l \in LeftSides, sep \in RangeSeparators, r \in RightSides \ {SFC, GND} :
              input = l \o sep \o r => LimitsAre(l, r)
        /\ \A l \in {SFC, GND}, sep \in RangeSeparators, r \in {SFC, GND} :
              input = l \o sep \o r => LimitsAre(input, UNL)
        /\ \A sep \in RangeSeparators, r \in {SFC, GND} :
              input = FL180 \o sep \o r => LimitsAre(GND, input)
        /\ \A l \in {Feet1500, Feet2500}, sep \in RangeSeparators, r \in {SFC, GND} :
              input = l \o sep \o r => result = TitledAirspace
        /\ input = SFC => LimitsAre(SFC, UNL)
        /\ input \in {UNL, FL180} => LimitsAre(GND, input)
        /\ input \in {H24, ByNotam, NotamFL180} => result = TitledAirspace

C25_Witness ==
    /\ op = "extractVerticalLimits"
    /\ input = SFC \o <<" ", "-", " ">> \o FL180
    /\ LimitsAre(SFC, FL180)

(***************************************************************************)
(* parseAltitude of the sector-format converter on its own                  *)
(***************************************************************************)
FEET == <<"F", "E", "E", "T">>

AltitudeAmounts == {0, 50, 245, 350, 5000, 10000, 24500, 24599}
LevelPrefixes == {<<>>, <<"F">>, FL}
FeetSuffixes == {FT, <<"'">>, FEET, <<" ">> \o FT}

AltitudeTexts ==
    { p \o NatToChars(n) \o s :
        p \in LevelPrefixes, n \in AltitudeAmounts, s \in FeetSuffixes \cup {<<>>} }

InitFeet ==
    /\ op = "input"
    /\ input \in AltitudeTexts
    /\ result = NoResult
    /\ ScanIdle
    /\ RendererIdle

ParseAltitude ==
    /\ op = "input"
    /\ op' = "parseAltitude"
    /\ result' = parseAltitude(Str(input))
    /\ UNCHANGED <<input, scanVars, rendererVars>>

NextFeet == ParseAltitude

SpecFeet == InitFeet /\ [][NextFeet]_vars

\* C26: digits followed by FT, ' or FEET are feet and give floor(feet / 100);
\* digits after FL give the digits themselves
C26_FeetToFlightLevel ==
    op = "parseAltitude" =>
        /\ \A n \in AltitudeAmounts, s \in FeetSuffixes :
              input = NatToChars(n) \o s => result = Num(n \div 100)
        /\ \A n \in AltitudeAmounts :
              input = FL \o NatToChars(n) => result = Num(n)

(***************************************************************************)
(* The array-format converter followed by its validator: the output of     *)
(* convertToVATGlasses, when there is one, is handed to                    *)
(* validateVATGlassesData.  input then holds the data that was validated.  *)
(***************************************************************************)
ValidateConverted ==
    /\ op = "convertToVATGlasses"
    /\ ~IsThrow(result)
    /\ op' = "validateVATGlassesData"
    /\ input' = result
    /\ result' = validateVATGlassesData(result)
    /\ UNCHANGED <<scanVars, rendererVars>>

NextComposed == ConvertToVATGlasses \/ ValidateConverted

SpecComposed == InitConvert /\ [][NextComposed]_vars

\* C27: whatever convertToVATGlasses returned, the validator reports it valid
\* with no errors
C27_ConvertedIsValid ==
    op = "validateVATGlassesData" =>
        /\ Get(result, "valid") = Bool(TRUE)
        /\ Get(result, "errors") = Arr(<<>>)

\* an output whose records draw warnings only
C27_Witness ==
    /\ op = "validateVATGlassesData"
    /\ Get(input, "airspace") # Arr(<<>>)
    /\ Get(result, "warnings") # Arr(<<>>)
    /\ Get(result, "valid") = Bool(TRUE)

(***************************************************************************)
(* The renderer (src/renderer.js): its two state variables, the button,    *)
(* the preview, and the invocations of the main process that have not      *)
(* been answered yet.  Every handler runs to its first await in one step;  *)
(* the answer of an invocation is a step of its own, and answers arrive in *)
(* any order.                                                              *)
(***************************************************************************)
MaxPending == 2

FirstPath == <<"a", ".", "d", "a", "h">>
SecondPath == <<"b", ".", "d", "a", "h">>
FilePaths == {FirstPath, SecondPath}

\* result.data of the 'convert-dah-file' invocation made with filePath
DataOf(filePath) == Obj([convertedFrom |-> filePath])

Pending == conversions[FirstPath] + conversions[SecondPath]

\* the markup that sets the button's first state is not part of the sources
InitRenderer ==
    /\ op = "DOMContentLoaded"
    /\ input = Null
    /\ result = NoResult
    /\ ScanIdle
    /\ currentFilePath = Null
    /\ convertedData = Null
    /\ convertBtnDisabled \in BOOLEAN
    /\ previewed = Null
    /\ dialogs = 0
    /\ conversions = [f \in FilePaths |-> 0]
    /\ saved = Null
    /\ copied = Null

\* handleSelectFile up to its await: by the button or by Ctrl/Cmd + O
HandleSelectFile ==
    /\ dialogs < MaxPending
    /\ op' = "handleSelectFile"
    /\ dialogs' = dialogs + 1
    /\ UNCHANGED <<input, result, scanVars, currentFilePath, convertedData,
                   convertBtnDisabled, previewed, conversions, saved, copied>>

\* the file named by a dialog or by a drop: the path is kept and hidePreview
\* clears the stored result
fileTaken(filePath) ==
    /\ currentFilePath' = Str(filePath)
    /\ convertBtnDisabled' = FALSE
    /\ previewed' = Null
    /\ convertedData' = Null

\* handleSelectFile after its await: a path, or nothing when the dialog was
\* cancelled or the invocation was rejected
FileSelected ==
    /\ dialogs > 0
    /\ op' = "select-dah-file"
    /\ dialogs' = dialogs - 1
    /\ \/ \E filePath \in FilePaths : fileTaken(filePath)
       \/ UNCHANGED <<currentFilePath, convertBtnDisabled, previewed, convertedData>>
    /\ UNCHANGED <<input, result, scanVars, conversions, saved, copied>>

\* the drop listener, with a file in the transfer
Drop ==
    /\ op' = "drop"
    /\ \E filePath \in FilePaths : fileTaken(filePath)
    /\ UNCHANGED <<input, result, scanVars, dialogs, conversions, saved, copied>>

\* handleConvert up to its await, with a file selected
handleConvertStarted ==
    /\ currentFilePath # Null
    /\ Pending < MaxPending
    /\ convertBtnDisabled' = TRUE
    /\ conversions' = [conversions EXCEPT ![currentFilePath.v] = @ + 1]
    /\ UNCHANGED <<input, result, scanVars, currentFilePath, convertedData,
                   previewed, dialogs, saved, copied>>

\* a click on the button, which a disabled button does not deliver
ClickConvert ==
    /\ ~convertBtnDisabled
    /\ op' = "click convertBtn"
    /\ handleConvertStarted

\* Ctrl/Cmd + Enter, which asks for a selected file only
KeyConvert ==
    /\ op' = "keydown Enter"
    /\ handleConvertStarted

\* handleConvert after its await: the answer to one of the invocations
ConversionAnswered ==
    /\ op' = "convert-dah-file"
    /\ \E filePath \in FilePaths :
          /\ conversions[filePath] > 0
          /\ conversions' = [conversions EXCEPT ![filePath] = @ - 1]
          /\ \/ /\ convertedData' = DataOf(filePath)
                /\ previewed' = DataOf(filePath)
             \/ /\ convertedData' = Null
                /\ previewed' = Null
    /\ convertBtnDisabled' = FALSE
    /\ UNCHANGED <<input, result, scanVars, currentFilePath, dialogs, saved, copied>>

\* handleSave with data to save: by the button or by Ctrl/Cmd + S
HandleSave ==
    /\ convertedData # Null
    /\ op' = "handleSave"
    /\ saved' = convertedData
    /\ UNCHANGED <<input, result, scanVars, currentFilePath, convertedData,
                   convertBtnDisabled, previewed, dialogs, conversions, copied>>

\* handleCopy with data to copy
HandleCopy ==
    /\ convertedData # Null
    /\ op' = "handleCopy"
    /\ copied' = convertedData
    /\ UNCHANGED <<input, result, scanVars, currentFilePath, convertedData,
                   convertBtnDisabled, previewed, dialogs, conversions, saved>>

NextRenderer ==
    \/ HandleSelectFile
    \/ FileSelected
    \/ Drop
    \/ ClickConvert
    \/ KeyConvert
    \/ ConversionAnswered
    \/ HandleSave
    \/ HandleCopy

SpecRenderer == InitRenderer /\ [][NextRenderer]_vars

\* C28: the stored result, when there is one, is the conversion of the file
\* currentFilePath names, and so is what the preview shows
C28_ConvertedDataIsOfCurrentFile ==
    /\ convertedData # Null =>
          currentFilePath # Null /\ convertedData = DataOf(currentFilePath.v)
    /\ previewed # Null =>
          currentFilePath # Null /\ previewed = DataOf(currentFilePath.v)

(***************************************************************************)
(* The sector-format convertToVATGlasses on records of the shape           *)
(* parseAirspaceText builds (part_000:69-79), up to MaxRecords of them.    *)
(***************************************************************************)
CoralSea == <<"C", "O", "R", "A", "L", " ", "S", "E", "A">>
Flinders == <<"F", "L", "I", "N", "D", "E", "R", "S">>
BrisbaneCentre == <<"B", "R", "I", "S", "B", "A", "N", "E", " ", "C", "E", "N", "T", "R", "E">>

SectorRecords ==
    { Obj([id |-> Str(YBBB \o <<"/">> \o name),
           name |-> Str(name),
           locations |-> locations,
           boundaries |-> boundaries,
           upperLimit |-> Str(UNL),
           lowerLimit |-> Str(GND),
           controllingAuthority |-> authority,
           frequencies |-> frequencies,
           hoursOfOperation |-> Null]) :
        name \in {CoralSea, Flinders, <<"1", "2">>},
        locations \in {Arr(<<>>), Arr(<<Str(YBBB), Str(YMMM)>>)},
        boundaries \in {Arr(<<>>), Arr(<<Point(-33, 151)>>)},
        authority \in {Null, Str(BrisbaneCentre)},
        frequencies \in {Arr(<<>>), Arr(<<Num(125)>>)} }

InitSector ==
    /\ op = "input"
    /\ input \in { Obj([airspaces |-> Arr(l)]) : l \in ListsOf(SectorRecords, MaxRecords) }
    /\ result = NoResult
    /\ ScanIdle
    /\ RendererIdle

ConvertToVATGlassesSector ==
    /\ op = "input"
    /\ op' = "convertToVATGlasses"
    /\ result' = convertToVATGlassesSector(input)
    /\ UNCHANGED <<input, scanVars, rendererVars>>

NextSector == ConvertToVATGlassesSector

SpecSector == InitSector /\ [][NextSector]_vars

OwnersListed(data, airspace) ==
    \A k \in 1..Len(airspace.v.owner.v) :
        airspace.v.owner.v[k].v \in DOMAIN data.v.positions.v

GroupListed(data, airspace) ==
    "group" \in DOMAIN airspace.v => airspace.v.group.v \in DOMAIN data.v.groups.v

\* C29: in the output every position id of an airspace's owner list is a key
\* of positions, and every airspace's group is a key of groups
C29_NoDanglingReference ==
    op = "convertToVATGlasses" /\ ~IsThrow(result) =>
        \A k \in 1..Len(result.v.airspace.v) :
            /\ OwnersListed(result, result.v.airspace.v[k])
            /\ GroupListed(result, result.v.airspace.v[k])

(***************************************************************************)
(* The two reading flags of parseAirspaceText, on texts of up to MaxLines  *)
(* lines in any order, a title being one of the lines or none.             *)
(***************************************************************************)
\* a line that holds an altitude range and a coordinate pair
LimitsAndPointLine == LimitsLine \o <<" ">> \o PointLine

FlagLines ==
    { TitleLine, LateralLine, VerticalLine, ActivationLine, PointLine, LimitsLine,
      LimitsAndPointLine, <<>> }

FlagTexts == { JoinLines(ls) : ls \in UNION { [1..n -> FlagLines] : n \in 0..MaxLines } }

InitFlags ==
    /\ op = "input"
    /\ input \in FlagTexts
    /\ result = NoResult
    /\ ScanIdle
    /\ RendererIdle

NextFlags == ParseAirspaceText \/ ScanLine \/ ReturnAirspaces

SpecFlags == InitFlags /\ [][NextFlags]_vars

\* never both flags, and none before the first title
FlagsExclusive ==
    /\ ~(readingLateralLimits /\ readingVerticalLimits)
    /\ currentAirspace = Null => ~readingLateralLimits /\ ~readingVerticalLimits

\* an iteration of the loop on a line that is no title
ScansPlainLine ==
    /\ op = "scanning"
    /\ i < Len(lines)
    /\ i' = i + 1
    /\ ~titleMatch(lines[i + 1]).ok

\* an iteration does not both add boundaries and change a limit
ScannedForOne ==
    ScansPlainLine /\ currentAirspace # Null =>
        \/ Get(currentAirspace', "boundaries") = Get(currentAirspace, "boundaries")
        \/ /\ Get(currentAirspace', "upperLimit") = Get(currentAirspace, "upperLimit")
           /\ Get(currentAirspace', "lowerLimit") = Get(currentAirspace, "lowerLimit")

\* an iteration before the first title changes nothing but i
NothingBeforeTitle ==
    ScansPlainLine /\ currentAirspace = Null =>
        UNCHANGED <<airspaces, currentAirspace, readingLateralLimits, readingVerticalLimits>>

\* C30: at every step of the scan the two flags are never both true and both
\* are false while no title has been seen; no line is scanned both for
\* coordinates and for limits, and lines before the first title change nothing
C30_OneReadingAtATime ==
    /\ []FlagsExclusive
    /\ [][ScannedForOne /\ NothingBeforeTitle]_vars

\* LATERAL LIMITS: met while the vertical limits were being read
C30_Witness ==
    /\ op = "scanning"
    /\ i = 3
    /\ lines[1] = TitleLine
    /\ lines[2] = VerticalLine
    /\ lines[3] = LateralLine
    /\ readingLateralLimits
    /\ ~readingVerticalLimits

====
